---------------------------- MODULE Spec2Model ----------------------------
(***************************************************************************)
(* Model of the amphipod puzzle solver (src/src/amphipod.rs): the board    *)
(* (AmphipodGame), the goal test (is_game_winner), the move generator      *)
(* (get_all_valid_moves and the eleven per-room / per-buffer generators)   *)
(* and the level-by-level search driver (run); of the reactor reboot       *)
(* (src/src/reactor_reboot.rs): run, run_steps and the cuboid arithmetic;  *)
(* of snailfish addition (src/src/snailfish.rs): add, magnitude and run    *)
(* with question max-sum; and of the sea cucumbers                         *)
(* (src/src/sea_cucumber.rs): run and run_step.                            *)
(*                                                                         *)
(* The specifications are given over the same variables:                   *)
(*   Spec          the search driver run(), started on bounded puzzle      *)
(*                 inputs; FairSpec is Spec with the loop scheduled;       *)
(*   SpecBuild     the head of that run(): the initial game built from the *)
(*                 arguments and the parsed rows;                          *)
(*   SpecMoves     the move generator and goal test as pure functions of a *)
(*                 board, applied to hand-built boards and to the boards   *)
(*                 the search feeds back into the generator;               *)
(*   SpecReactor   the reactor reboot's run(), started on bounded lists of *)
(*                 reboot steps;                                           *)
(*   SpecCuboids   SpecReactor together with calls of fracture_cuboid on   *)
(*                 bounded cuboids;                                        *)
(*   SpecSnailfish the snailfish run() with question max-sum, started on   *)
(*                 bounded lists of pairs;                                 *)
(*   SpecCucumber  the sea cucumber run(), started on bounded grids.       *)
(* A specification leaves the variables of the other programs at their     *)
(* initial values.                                                         *)
(***************************************************************************)
EXTENDS Integers, Sequences, FiniteSets, TLC

VARIABLES
    pc,             \* position of the modelled routine
    game,           \* run: the initial game; generator: the input board
    moves,          \* generator: the Vec returned by get_all_valid_moves
    winner,         \* generator: the bool returned by is_game_winner
    games,          \* run: the frontier (HashSet<AmphipodGame>)
    winning_games,  \* run: the goal games recorded so far
    result,         \* run: what the call ends in
    iteration,      \* run: passes of the while loop made so far (history)
    dead_ends,      \* run: arrangements dropped for having no move (history)
    arguments,      \* reactor run: ReactorRebootArgs
    reboot_steps,   \* reactor run: the parsed Vec<RebootStep>
    filtered_steps, \* reactor run: the steps run_steps has yet to consume
    on_cubes,       \* reactor run_steps: HashSet<Cuboid>
    fracture_base,  \* reactor fracture_cuboid: base
    fracture_sub_cube, \* reactor fracture_cuboid: sub_cube
    fracture_pieces, \* reactor fracture_cuboid: the Vec returned
    amphipod_arguments, \* amphipod run: AmphipodArgs
    amphipods,      \* amphipod run: the parsed rows, <<top, bottom>>
    pairs,          \* snailfish run: the parsed Vec<Pair>
    index_i,        \* snailfish run: i of the outer for
    index_j,        \* snailfish run: j of the inner for
    max_magnitude,  \* snailfish run: max
    cucumber_file,  \* sea cucumber: the grid parse_data reads from the input file
    sea_cucumbers,  \* sea cucumber run: the grid, Vec<Vec<SeaCucumber>>
    event_count     \* sea cucumber run: event_count

amphipod_vars == <<game, moves, winner, games, winning_games, iteration, dead_ends>>

fracture_vars == <<fracture_base, fracture_sub_cube, fracture_pieces>>

reactor_vars == <<arguments, reboot_steps, filtered_steps, on_cubes, fracture_vars>>

build_vars == <<amphipod_arguments, amphipods>>

snailfish_vars == <<pairs, index_i, index_j, max_magnitude>>

cucumber_vars == <<cucumber_file, sea_cucumbers, event_count>>

vars == <<pc, result, amphipod_vars, reactor_vars, build_vars, snailfish_vars, cucumber_vars>>

---------------------------------------------------------------------------
(* enum Amphipod and Option<Amphipod> *)

Amber == "Amber"
Bronze == "Bronze"
Copper == "Copper"
Desert == "Desert"

Amphipod == {Amber, Bronze, Copper, Desert}

None == "None"

(* variant: Bronze => 100 *)
multiplier_bronze_as_100(amphipod) ==
    IF amphipod = Amber THEN 1
    ELSE IF amphipod = Bronze THEN 100
    ELSE IF amphipod = Copper THEN 100
    ELSE 1000

multiplier(amphipod) ==
    IF amphipod = Amber THEN 1
    ELSE IF amphipod = Bronze THEN 10
    ELSE IF amphipod = Copper THEN 100
    ELSE 1000

(* Vec helpers: last(), pop() leave the popped vector, push() *)
last(block) == block[Len(block)]

popped(block) == SubSeq(block, 1, Len(block) - 1)

---------------------------------------------------------------------------
(* impl AmphipodGame: a block is valid when it holds no foreign amphipod *)

(* variant: room A counts as ready whatever it holds *)
is_a_block_valid_whatever_it_holds(g) == Len(g.a_block) >= 0

is_a_block_valid(g) == \A i \in 1..Len(g.a_block) : g.a_block[i] = Amber

is_b_block_valid(g) == \A i \in 1..Len(g.b_block) : g.b_block[i] = Bronze

(* variant: the test of the neighbouring room copied without its kind changed *)
is_c_block_valid_as_bronze(g) == \A i \in 1..Len(g.c_block) : g.c_block[i] = Bronze

is_c_block_valid(g) == \A i \in 1..Len(g.c_block) : g.c_block[i] = Copper

(* variant: room D counts as ready only when it is empty or full *)
is_d_block_valid_only_when_full(g) ==
    /\ Len(g.d_block) \in {0, g.block_depth}
    /\ \A i \in 1..Len(g.d_block) : g.d_block[i] = Desert

is_d_block_valid(g) == \A i \in 1..Len(g.d_block) : g.d_block[i] = Desert

(* variant: the test of bc_buffer left out *)
is_game_winner_without_bc_buffer(g) ==
    /\ is_a_block_valid(g)
    /\ is_b_block_valid(g)
    /\ is_c_block_valid(g)
    /\ is_d_block_valid(g)
    /\ g.far_left_buffer = None
    /\ g.left_buffer = None
    /\ g.ab_buffer = None
    /\ g.cd_buffer = None
    /\ g.right_buffer = None
    /\ g.far_right_buffer = None

is_game_winner(g) ==
    /\ is_a_block_valid(g)
    /\ is_b_block_valid(g)
    /\ is_c_block_valid(g)
    /\ is_d_block_valid(g)
    /\ g.far_left_buffer = None
    /\ g.left_buffer = None
    /\ g.ab_buffer = None
    /\ g.bc_buffer = None
    /\ g.cd_buffer = None
    /\ g.right_buffer = None
    /\ g.far_right_buffer = None

---------------------------------------------------------------------------
(* variant: the amphipod is read with last() and never popped *)
pop_into_keeps_amphipod(g, block, buffer, steps) ==
    LET amphipod == last(g[block])
        base_cost == g.block_depth - Len(g[block])
    IN  [g EXCEPT ![buffer] = amphipod,
                  !.energy = g.energy + multiplier(amphipod) * (steps + base_cost)]

(* variant: base_cost read from the clone after its pop *)
pop_into_len_after_pop(g, block, buffer, steps) ==
    LET amphipod == last(g[block])
        base_cost == g.block_depth - Len(popped(g[block]))
    IN  [g EXCEPT ![buffer] = amphipod,
                  ![block] = popped(g[block]),
                  !.energy = g.energy + multiplier(amphipod) * (steps + base_cost)]

(* The statement group repeated in every arm of the room generators:       *)
(*   let mut new_game = game.clone();                                      *)
(*   new_game.<buffer> = new_game.<block>.pop();                           *)
(*   new_game.energy += amphipod.multiplier() * (<steps> + base_cost);     *)
(* with amphipod = <block>.last() and                                      *)
(*      base_cost = game.block_depth - game.<block>.len().                 *)
pop_into(g, block, buffer, steps) ==
    LET amphipod == last(g[block])
        base_cost == g.block_depth - Len(g[block])
    IN  [g EXCEPT ![buffer] = amphipod,
                  ![block] = popped(g[block]),
                  !.energy = g.energy + multiplier(amphipod) * (steps + base_cost)]

(* variant: the walk along the hallway left out of the cost *)
push_from_without_walk(g, buffer, block, amphipod, walk, mult) ==
    LET pushed == Append(g[block], amphipod)
    IN  [g EXCEPT ![buffer] = None,
                  ![block] = pushed,
                  !.energy = g.energy + mult * (g.block_depth - Len(pushed))]

(* variant: the room's length read before the push *)
push_from_len_before_push(g, buffer, block, amphipod, walk, mult) ==
    LET pushed == Append(g[block], amphipod)
    IN  [g EXCEPT ![buffer] = None,
                  ![block] = pushed,
                  !.energy = g.energy + walk + mult * (g.block_depth - Len(g[block]))]

(* variant: the clone's block_depth set to the room's new length *)
push_from_depth_from_len(g, buffer, block, amphipod, walk, mult) ==
    LET pushed == Append(g[block], amphipod)
    IN  [g EXCEPT ![buffer] = None,
                  ![block] = pushed,
                  !.block_depth = Len(pushed),
                  !.energy = g.energy + walk + mult * (g.block_depth - Len(pushed))]

(* The statement group repeated in every arm of the buffer generators:     *)
(*   let mut next_step = game.clone();                                     *)
(*   next_step.<buffer> = Option::None;                                    *)
(*   next_step.<block>.push(<amphipod>);                                   *)
(*   next_step.energy += <walk> + <mult> *                                 *)
(*       (next_step.block_depth - next_step.<block>.len());                *)
(* the length being read after the push.  Both block_depth - len are usize *)
(* subtractions; on the boards of this model (no room above block_depth,   *)
(* no more than block_depth amphipods of a kind) neither goes below zero.  *)
push_from(g, buffer, block, amphipod, walk, mult) ==
    LET pushed == Append(g[block], amphipod)
    IN  [g EXCEPT ![buffer] = None,
                  ![block] = pushed,
                  !.energy = g.energy + walk + mult * (g.block_depth - Len(pushed))]

---------------------------------------------------------------------------
(* Room generators.  Each returns the Vec it builds: the arm of the first  *)
(* match that applies, followed by the arm of the second.                  *)

a_block_valid_moves(g) ==
    IF is_a_block_valid(g) THEN <<>>
    ELSE
      LET toward_left ==
            IF g.far_left_buffer = None /\ g.left_buffer = None
            THEN << pop_into(g, "a_block", "far_left_buffer", 3),
                    pop_into(g, "a_block", "left_buffer", 2) >>
            ELSE IF g.left_buffer = None
            THEN << pop_into(g, "a_block", "left_buffer", 2) >>
            ELSE <<>>
          toward_right ==
            IF /\ g.ab_buffer = None /\ g.bc_buffer = None /\ g.cd_buffer = None
               /\ g.right_buffer = None /\ g.far_right_buffer = None
            THEN << pop_into(g, "a_block", "far_right_buffer", 9),
                    pop_into(g, "a_block", "right_buffer", 8),
                    pop_into(g, "a_block", "cd_buffer", 6),
                    pop_into(g, "a_block", "bc_buffer", 4),
                    pop_into(g, "a_block", "ab_buffer", 2) >>
            ELSE IF /\ g.ab_buffer = None /\ g.bc_buffer = None
                    /\ g.cd_buffer = None /\ g.right_buffer = None
            THEN << pop_into(g, "a_block", "right_buffer", 8),
                    pop_into(g, "a_block", "cd_buffer", 6),
                    pop_into(g, "a_block", "bc_buffer", 4),
                    pop_into(g, "a_block", "ab_buffer", 2) >>
            ELSE IF g.ab_buffer = None /\ g.bc_buffer = None /\ g.cd_buffer = None
            THEN << pop_into(g, "a_block", "cd_buffer", 6),
                    pop_into(g, "a_block", "bc_buffer", 4),
                    pop_into(g, "a_block", "ab_buffer", 2) >>
            ELSE IF g.ab_buffer = None /\ g.bc_buffer = None
            THEN << pop_into(g, "a_block", "bc_buffer", 4),
                    pop_into(g, "a_block", "ab_buffer", 2) >>
            ELSE IF g.ab_buffer = None
            THEN << pop_into(g, "a_block", "ab_buffer", 2) >>
            ELSE <<>>
      IN  toward_left \o toward_right

b_block_valid_moves(g) ==
    IF is_b_block_valid(g) THEN <<>>
    ELSE
      LET toward_left ==
            IF g.far_left_buffer = None /\ g.left_buffer = None /\ g.ab_buffer = None
            THEN << pop_into(g, "b_block", "far_left_buffer", 5),
                    pop_into(g, "b_block", "left_buffer", 4),
                    pop_into(g, "b_block", "ab_buffer", 2) >>
            ELSE IF g.left_buffer = None /\ g.ab_buffer = None
            THEN << pop_into(g, "b_block", "left_buffer", 4),
                    pop_into(g, "b_block", "ab_buffer", 2) >>
            ELSE IF g.ab_buffer = None
            THEN << pop_into(g, "b_block", "ab_buffer", 2) >>
            ELSE <<>>
          toward_right ==
            IF /\ g.bc_buffer = None /\ g.cd_buffer = None
               /\ g.right_buffer = None /\ g.far_right_buffer = None
            THEN << pop_into(g, "b_block", "far_right_buffer", 7),
                    pop_into(g, "b_block", "right_buffer", 6),
                    pop_into(g, "b_block", "cd_buffer", 4),
                    pop_into(g, "b_block", "bc_buffer", 2) >>
            ELSE IF g.bc_buffer = None /\ g.cd_buffer = None /\ g.right_buffer = None
            THEN << pop_into(g, "b_block", "right_buffer", 6),
                    pop_into(g, "b_block", "cd_buffer", 4),
                    pop_into(g, "b_block", "bc_buffer", 2) >>
            ELSE IF g.bc_buffer = None /\ g.cd_buffer = None
            THEN << pop_into(g, "b_block", "cd_buffer", 4),
                    pop_into(g, "b_block", "bc_buffer", 2) >>
            ELSE IF g.bc_buffer = None
            THEN << pop_into(g, "b_block", "bc_buffer", 2) >>
            ELSE <<>>
      IN  toward_left \o toward_right

c_block_valid_moves(g) ==
    IF is_c_block_valid(g) THEN <<>>
    ELSE
      LET toward_left ==
            IF /\ g.far_left_buffer = None /\ g.left_buffer = None
               /\ g.ab_buffer = None /\ g.bc_buffer = None
            THEN << pop_into(g, "c_block", "far_left_buffer", 7),
                    pop_into(g, "c_block", "left_buffer", 6),
                    pop_into(g, "c_block", "ab_buffer", 4),
                    pop_into(g, "c_block", "bc_buffer", 2) >>
            ELSE IF g.left_buffer = None /\ g.ab_buffer = None /\ g.bc_buffer = None
            THEN << pop_into(g, "c_block", "left_buffer", 6),
                    pop_into(g, "c_block", "ab_buffer", 4),
                    pop_into(g, "c_block", "bc_buffer", 2) >>
            ELSE IF g.ab_buffer = None /\ g.bc_buffer = None
            THEN << pop_into(g, "c_block", "ab_buffer", 4),
                    pop_into(g, "c_block", "bc_buffer", 2) >>
            ELSE IF g.bc_buffer = None
            THEN << pop_into(g, "c_block", "bc_buffer", 2) >>
            ELSE <<>>
          toward_right ==
            IF g.cd_buffer = None /\ g.right_buffer = None /\ g.far_right_buffer = None
            THEN << pop_into(g, "c_block", "far_right_buffer", 5),
                    pop_into(g, "c_block", "right_buffer", 4),
                    pop_into(g, "c_block", "cd_buffer", 2) >>
            ELSE IF g.cd_buffer = None /\ g.right_buffer = None
            THEN << pop_into(g, "c_block", "right_buffer", 4),
                    pop_into(g, "c_block", "cd_buffer", 2) >>
            ELSE IF g.cd_buffer = None
            THEN << pop_into(g, "c_block", "cd_buffer", 2) >>
            ELSE <<>>
      IN  toward_left \o toward_right

d_block_valid_moves(g) ==
    IF is_d_block_valid(g) THEN <<>>
    ELSE
      LET toward_left ==
            IF /\ g.far_left_buffer = None /\ g.left_buffer = None /\ g.ab_buffer = None
               /\ g.bc_buffer = None /\ g.cd_buffer = None
            THEN << pop_into(g, "d_block", "far_left_buffer", 9),
                    pop_into(g, "d_block", "left_buffer", 8),
                    pop_into(g, "d_block", "ab_buffer", 6),
                    pop_into(g, "d_block", "bc_buffer", 4),
                    pop_into(g, "d_block", "cd_buffer", 2) >>
            ELSE IF /\ g.left_buffer = None /\ g.ab_buffer = None
                    /\ g.bc_buffer = None /\ g.cd_buffer = None
            THEN << pop_into(g, "d_block", "left_buffer", 8),
                    pop_into(g, "d_block", "ab_buffer", 6),
                    pop_into(g, "d_block", "bc_buffer", 4),
                    pop_into(g, "d_block", "cd_buffer", 2) >>
            ELSE IF g.ab_buffer = None /\ g.bc_buffer = None /\ g.cd_buffer = None
            THEN << pop_into(g, "d_block", "ab_buffer", 6),
                    pop_into(g, "d_block", "bc_buffer", 4),
                    pop_into(g, "d_block", "cd_buffer", 2) >>
            ELSE IF g.bc_buffer = None /\ g.cd_buffer = None
            THEN << pop_into(g, "d_block", "bc_buffer", 4),
                    pop_into(g, "d_block", "cd_buffer", 2) >>
            ELSE IF g.cd_buffer = None
            THEN << pop_into(g, "d_block", "cd_buffer", 2) >>
            ELSE <<>>
          toward_right ==
            IF g.right_buffer = None /\ g.far_right_buffer = None
            THEN << pop_into(g, "d_block", "far_right_buffer", 3),
                    pop_into(g, "d_block", "right_buffer", 2) >>
            ELSE IF g.right_buffer = None
            THEN << pop_into(g, "d_block", "right_buffer", 2) >>
            ELSE <<>>
      IN  toward_left \o toward_right

---------------------------------------------------------------------------
(* Buffer generators.  Each returns an Option<AmphipodGame>, modelled as a *)
(* sequence of no or one game (get_all_valid_moves extends its Vec by it). *)

far_left_buffer_valid_moves(g) ==
    IF g.far_left_buffer = None THEN <<>>
    ELSE IF g.far_left_buffer = Amber THEN
        IF is_a_block_valid(g) /\ g.left_buffer = None
        THEN << push_from(g, "far_left_buffer", "a_block", Amber, 3, multiplier(Amber)) >>
        ELSE <<>>
    ELSE IF g.far_left_buffer = Bronze THEN
        IF is_b_block_valid(g) /\ g.left_buffer = None /\ g.ab_buffer = None
        THEN << push_from(g, "far_left_buffer", "b_block", Bronze, 50, multiplier(Bronze)) >>
        ELSE <<>>
    ELSE IF g.far_left_buffer = Copper THEN
        IF /\ is_c_block_valid(g) /\ g.left_buffer = None
           /\ g.ab_buffer = None /\ g.bc_buffer = None
        THEN << push_from(g, "far_left_buffer", "c_block", Copper, 700, multiplier(Copper)) >>
        ELSE <<>>
    ELSE
        IF /\ is_d_block_valid(g) /\ g.left_buffer = None /\ g.ab_buffer = None
           /\ g.bc_buffer = None /\ g.cd_buffer = None
        THEN << push_from(g, "far_left_buffer", "d_block", Desert, 9000, multiplier(Desert)) >>
        ELSE <<>>

(* variant: the Bronze and Copper arms do not look at ab_buffer *)
left_buffer_valid_moves_past_ab(g) ==
    IF g.left_buffer = None THEN <<>>
    ELSE IF g.left_buffer = Amber THEN
        IF is_a_block_valid(g)
        THEN << push_from(g, "left_buffer", "a_block", Amber, 2, multiplier(Amber)) >>
        ELSE <<>>
    ELSE IF g.left_buffer = Bronze THEN
        IF is_b_block_valid(g)
        THEN << push_from(g, "left_buffer", "b_block", Bronze, 40, multiplier(Bronze)) >>
        ELSE <<>>
    ELSE IF g.left_buffer = Copper THEN
        IF is_c_block_valid(g) /\ g.bc_buffer = None
        THEN << push_from(g, "left_buffer", "c_block", Copper, 600, multiplier(Copper)) >>
        ELSE <<>>
    ELSE
        IF /\ is_d_block_valid(g) /\ g.ab_buffer = None
           /\ g.bc_buffer = None /\ g.cd_buffer = None
        THEN << push_from(g, "left_buffer", "d_block", Desert, 8000, multiplier(Desert)) >>
        ELSE <<>>

left_buffer_valid_moves(g) ==
    IF g.left_buffer = None THEN <<>>
    ELSE IF g.left_buffer = Amber THEN
        IF is_a_block_valid(g)
        THEN << push_from(g, "left_buffer", "a_block", Amber, 2, multiplier(Amber)) >>
        ELSE <<>>
    ELSE IF g.left_buffer = Bronze THEN
        IF is_b_block_valid(g) /\ g.ab_buffer = None
        THEN << push_from(g, "left_buffer", "b_block", Bronze, 40, multiplier(Bronze)) >>
        ELSE <<>>
    ELSE IF g.left_buffer = Copper THEN
        IF is_c_block_valid(g) /\ g.ab_buffer = None /\ g.bc_buffer = None
        THEN << push_from(g, "left_buffer", "c_block", Copper, 600, multiplier(Copper)) >>
        ELSE <<>>
    ELSE
        IF /\ is_d_block_valid(g) /\ g.ab_buffer = None
           /\ g.bc_buffer = None /\ g.cd_buffer = None
        THEN << push_from(g, "left_buffer", "d_block", Desert, 8000, multiplier(Desert)) >>
        ELSE <<>>

ab_buffer_valid_moves(g) ==
    IF g.ab_buffer = None THEN <<>>
    ELSE IF g.ab_buffer = Amber THEN
        IF is_a_block_valid(g)
        THEN << push_from(g, "ab_buffer", "a_block", Amber, 2, multiplier(Amber)) >>
        ELSE <<>>
    ELSE IF g.ab_buffer = Bronze THEN
        IF is_b_block_valid(g)
        THEN << push_from(g, "ab_buffer", "b_block", Bronze, 20, multiplier(Bronze)) >>
        ELSE <<>>
    ELSE IF g.ab_buffer = Copper THEN
        IF is_c_block_valid(g) /\ g.bc_buffer = None
        THEN << push_from(g, "ab_buffer", "c_block", Copper, 400, multiplier(Copper)) >>
        ELSE <<>>
    ELSE
        IF is_d_block_valid(g) /\ g.bc_buffer = None /\ g.cd_buffer = None
        THEN << push_from(g, "ab_buffer", "d_block", Desert, 6000, multiplier(Desert)) >>
        ELSE <<>>

bc_buffer_valid_moves(g) ==
    IF g.bc_buffer = None THEN <<>>
    ELSE IF g.bc_buffer = Amber THEN
        IF is_a_block_valid(g) /\ g.ab_buffer = None
        THEN << push_from(g, "bc_buffer", "a_block", Amber, 4, multiplier(Amber)) >>
        ELSE <<>>
    ELSE IF g.bc_buffer = Bronze THEN
        IF is_b_block_valid(g)
        THEN << push_from(g, "bc_buffer", "b_block", Bronze, 20, multiplier(Bronze)) >>
        ELSE <<>>
    ELSE IF g.bc_buffer = Copper THEN
        IF is_c_block_valid(g)
        THEN << push_from(g, "bc_buffer", "c_block", Copper, 200, multiplier(Copper)) >>
        ELSE <<>>
    ELSE
        IF is_d_block_valid(g) /\ g.cd_buffer = None
        THEN << push_from(g, "bc_buffer", "d_block", Desert, 4000, multiplier(Desert)) >>
        ELSE <<>>

(* variant: the Amber arm pushes onto b_block *)
cd_buffer_valid_moves_amber_into_b(g) ==
    IF g.cd_buffer = None THEN <<>>
    ELSE IF g.cd_buffer = Amber THEN
        IF is_a_block_valid(g) /\ g.ab_buffer = None /\ g.bc_buffer = None
        THEN << push_from(g, "cd_buffer", "b_block", Amber, 6, multiplier(Amber)) >>
        ELSE <<>>
    ELSE IF g.cd_buffer = Bronze THEN
        IF is_b_block_valid(g) /\ g.bc_buffer = None
        THEN << push_from(g, "cd_buffer", "b_block", Bronze, 40, multiplier(Bronze)) >>
        ELSE <<>>
    ELSE IF g.cd_buffer = Copper THEN
        IF is_c_block_valid(g)
        THEN << push_from(g, "cd_buffer", "c_block", Copper, 200, multiplier(Copper)) >>
        ELSE <<>>
    ELSE
        IF is_d_block_valid(g)
        THEN << push_from(g, "cd_buffer", "d_block", Desert, 2000, multiplier(Desert)) >>
        ELSE <<>>

cd_buffer_valid_moves(g) ==
    IF g.cd_buffer = None THEN <<>>
    ELSE IF g.cd_buffer = Amber THEN
        IF is_a_block_valid(g) /\ g.ab_buffer = None /\ g.bc_buffer = None
        THEN << push_from(g, "cd_buffer", "a_block", Amber, 6, multiplier(Amber)) >>
        ELSE <<>>
    ELSE IF g.cd_buffer = Bronze THEN
        IF is_b_block_valid(g) /\ g.bc_buffer = None
        THEN << push_from(g, "cd_buffer", "b_block", Bronze, 40, multiplier(Bronze)) >>
        ELSE <<>>
    ELSE IF g.cd_buffer = Copper THEN
        IF is_c_block_valid(g)
        THEN << push_from(g, "cd_buffer", "c_block", Copper, 200, multiplier(Copper)) >>
        ELSE <<>>
    ELSE
        IF is_d_block_valid(g)
        THEN << push_from(g, "cd_buffer", "d_block", Desert, 2000, multiplier(Desert)) >>
        ELSE <<>>

right_buffer_valid_moves(g) ==
    IF g.right_buffer = None THEN <<>>
    ELSE IF g.right_buffer = Amber THEN
        IF /\ is_a_block_valid(g) /\ g.ab_buffer = None
           /\ g.bc_buffer = None /\ g.cd_buffer = None
        THEN << push_from(g, "right_buffer", "a_block", Amber, 8, multiplier(Amber)) >>
        ELSE <<>>
    ELSE IF g.right_buffer = Bronze THEN
        IF is_b_block_valid(g) /\ g.bc_buffer = None /\ g.cd_buffer = None
        THEN << push_from(g, "right_buffer", "b_block", Bronze, 60, multiplier(Bronze)) >>
        ELSE <<>>
    ELSE IF g.right_buffer = Copper THEN
        IF is_c_block_valid(g) /\ g.cd_buffer = None
        THEN << push_from(g, "right_buffer", "c_block", Copper, 400, multiplier(Copper)) >>
        ELSE <<>>
    ELSE
        IF is_d_block_valid(g)
        THEN << push_from(g, "right_buffer", "d_block", Desert, 2000, multiplier(Desert)) >>
        ELSE <<>>

far_right_buffer_valid_moves(g) ==
    IF g.far_right_buffer = None THEN <<>>
    ELSE IF g.far_right_buffer = Amber THEN
        IF /\ is_a_block_valid(g) /\ g.ab_buffer = None /\ g.bc_buffer = None
           /\ g.cd_buffer = None /\ g.right_buffer = None
        THEN << push_from(g, "far_right_buffer", "a_block", Amber, 9, multiplier(Amber)) >>
        ELSE <<>>
    ELSE IF g.far_right_buffer = Bronze THEN
        IF /\ is_b_block_valid(g) /\ g.bc_buffer = None
           /\ g.cd_buffer = None /\ g.right_buffer = None
        THEN << push_from(g, "far_right_buffer", "b_block", Bronze, 70, 10) >>
        ELSE <<>>
    ELSE IF g.far_right_buffer = Copper THEN
        IF is_c_block_valid(g) /\ g.cd_buffer = None /\ g.right_buffer = None
        THEN << push_from(g, "far_right_buffer", "c_block", Copper, 500, multiplier(Copper)) >>
        ELSE <<>>
    ELSE
        IF is_d_block_valid(g) /\ g.right_buffer = None
        THEN << push_from(g, "far_right_buffer", "d_block", Desert, 3000, multiplier(Desert)) >>
        ELSE <<>>

get_all_valid_moves(g) ==
    a_block_valid_moves(g)
        \o b_block_valid_moves(g)
        \o c_block_valid_moves(g)
        \o d_block_valid_moves(g)
        \o far_left_buffer_valid_moves(g)
        \o left_buffer_valid_moves(g)
        \o ab_buffer_valid_moves(g)
        \o bc_buffer_valid_moves(g)
        \o cd_buffer_valid_moves(g)
        \o right_buffer_valid_moves(g)
        \o far_right_buffer_valid_moves(g)

---------------------------------------------------------------------------
(* run: the initial game built from the parsed rows (top, bottom) *)

InitialGame_c_rows_as_b(additional_rows, top, bottom) ==
    LET a_block == IF additional_rows THEN <<bottom[1], Desert, Desert, top[1]>>
                   ELSE <<bottom[1], top[1]>>
        b_block == IF additional_rows THEN <<bottom[2], Bronze, Copper, top[2]>>
                   ELSE <<bottom[2], top[2]>>
        c_block == IF additional_rows THEN <<bottom[3], Bronze, Copper, top[3]>>
                   ELSE <<bottom[3], top[3]>>
        d_block == IF additional_rows THEN <<bottom[4], Copper, Amber, top[4]>>
                   ELSE <<bottom[4], top[4]>>
    IN  [block_depth |-> Len(a_block),
         energy |-> 0,
         far_left_buffer |-> None,
         left_buffer |-> None,
         ab_buffer |-> None,
         bc_buffer |-> None,
         cd_buffer |-> None,
         right_buffer |-> None,
         far_right_buffer |-> None,
         a_block |-> a_block,
         b_block |-> b_block,
         c_block |-> c_block,
         d_block |-> d_block]

InitialGame(additional_rows, top, bottom) ==
    LET a_block == IF additional_rows THEN <<bottom[1], Desert, Desert, top[1]>>
                   ELSE <<bottom[1], top[1]>>
        b_block == IF additional_rows THEN <<bottom[2], Bronze, Copper, top[2]>>
                   ELSE <<bottom[2], top[2]>>
        c_block == IF additional_rows THEN <<bottom[3], Amber, Bronze, top[3]>>
                   ELSE <<bottom[3], top[3]>>
        d_block == IF additional_rows THEN <<bottom[4], Copper, Amber, top[4]>>
                   ELSE <<bottom[4], top[4]>>
    IN  [block_depth |-> Len(a_block),
         energy |-> 0,
         far_left_buffer |-> None,
         left_buffer |-> None,
         ab_buffer |-> None,
         bc_buffer |-> None,
         cd_buffer |-> None,
         right_buffer |-> None,
         far_right_buffer |-> None,
         a_block |-> a_block,
         b_block |-> b_block,
         c_block |-> c_block,
         d_block |-> d_block]

(* variant: filter_map answers Some(vec![game]) for a game without moves *)
expanded_keeps_dead_ends(frontier) ==
    LET vecs == { IF Len(get_all_valid_moves(g)) > 0 THEN get_all_valid_moves(g) ELSE <<g>> :
                    g \in frontier }
        lens == { Len(valid_moves) : valid_moves \in vecs }
        longest == IF lens = {} THEN 0
                   ELSE CHOOSE n \in lens : \A m \in lens : m <= n
    IN  { valid_moves[IF i <= Len(valid_moves) THEN i ELSE 1] :
            valid_moves \in vecs, i \in 1..longest }

(* The games produced by one pass of the loop body's iterator chain over   *)
(* the frontier: filter_map keeps the non-empty Vecs of successors,        *)
(* flatten yields their elements, which end up in a HashSet.  A Vec        *)
(* shorter than the longest is read again at its first element, which adds *)
(* nothing to the set.                                                     *)
expanded(frontier) ==
    LET vecs == { valid_moves \in { get_all_valid_moves(g) : g \in frontier } :
                    Len(valid_moves) > 0 }
        lens == { Len(valid_moves) : valid_moves \in vecs }
        longest == IF lens = {} THEN 0
                   ELSE CHOOSE n \in lens : \A m \in lens : m <= n
    IN  { valid_moves[IF i <= Len(valid_moves) THEN i ELSE 1] :
            valid_moves \in vecs, i \in 1..longest }

(* variant: the largest energy is taken (max() written for min()) *)
min_energy_as_max(ws) == CHOOSE e \in { w.energy : w \in ws } : \A w \in ws : e >= w.energy

(* winning_games.into_iter().map(|game| game.energy).min() *)
min_energy(ws) == CHOOSE e \in { w.energy : w \in ws } : \A w \in ws : e <= w.energy

Running == [kind |-> "running", value |-> 0]

Panicked == [kind |-> "panic", value |-> 0]

Returned(v) == [kind |-> "returned", value |-> v]

---------------------------------------------------------------------------
(* Bounded inputs of run *)

OwnKind == <<Amber, Bronze, Copper, Desert>>

(* amphipods of room i that have to leave it: a foreign one, or one        *)
(* standing on a foreign one                                               *)
MustLeave(top, bottom, i) ==
    IF bottom[i] # OwnKind[i] THEN 2
    ELSE IF top[i] # OwnKind[i] THEN 1
    ELSE 0

WellFormedRows(top, bottom) ==
    \A k \in Amphipod :
        Cardinality({i \in 1..4 : top[i] = k}) + Cardinality({i \in 1..4 : bottom[i] = k}) = 2

MaxMustLeave == 3

Rows == [1..4 -> Amphipod]

Inputs ==
    { in \in Rows \X Rows :
        /\ WellFormedRows(in[1], in[2])
        /\ MustLeave(in[1], in[2], 1) + MustLeave(in[1], in[2], 2)
             + MustLeave(in[1], in[2], 3) + MustLeave(in[1], in[2], 4) <= MaxMustLeave }

---------------------------------------------------------------------------
(* Specification of run *)

(* fracture_cuboid has not been called *)
FractureIdle ==
    /\ fracture_base = <<>>
    /\ fracture_sub_cube = <<>>
    /\ fracture_pieces = <<>>

(* the reactor reboot has not been started *)
ReactorIdle ==
    /\ arguments = [limit_cubes |-> FALSE]
    /\ reboot_steps = <<>>
    /\ filtered_steps = <<>>
    /\ on_cubes = {}
    /\ FractureIdle

(* the snailfish run has not been started *)
SnailfishIdle ==
    /\ pairs = <<>>
    /\ index_i = 0
    /\ index_j = 0
    /\ max_magnitude = 0

(* the sea cucumber run has not been started *)
CucumberIdle ==
    /\ cucumber_file = <<>>
    /\ sea_cucumbers = <<>>
    /\ event_count = 0

OthersIdle == ReactorIdle /\ SnailfishIdle /\ CucumberIdle

(* the passes counted by iteration; further passes leave it at this value *)
MaxIterations == 17

(* a game's hallway and rooms, its energy put aside *)
arrangement(g) == [g EXCEPT !.energy = 0]

Init ==
    /\ amphipod_arguments = [additional_rows |-> FALSE]
    /\ amphipods \in Inputs
    /\ game = InitialGame(amphipod_arguments.additional_rows, amphipods[1], amphipods[2])
    /\ pc = "loop"
    /\ games = {game}
    /\ winning_games = {}
    /\ result = Running
    /\ moves = <<>>
    /\ winner = FALSE
    /\ iteration = 0
    /\ dead_ends = {}
    /\ OthersIdle

(* variant: a game without moves stays in the frontier *)
LoopBody_dead_ends_kept ==
    /\ pc = "loop"
    /\ Cardinality(games) > 0
    /\ LET next == expanded(games)
       IN  /\ winning_games' = winning_games \cup { g \in next : is_game_winner(g) }
           /\ games' = { g \in next : ~is_game_winner(g) }
                         \cup { g \in games : Len(get_all_valid_moves(g)) = 0 }
    /\ iteration' = IF iteration < MaxIterations THEN iteration + 1 ELSE iteration
    /\ dead_ends' = dead_ends \cup
          { arrangement(g) : g \in { x \in games : Len(get_all_valid_moves(x)) = 0 } }
    /\ UNCHANGED <<pc, game, moves, winner, result, reactor_vars, build_vars,
                 snailfish_vars, cucumber_vars>>

(* variant: the filter records the winners and lets them through *)
LoopBody_winners_pass_filter ==
    /\ pc = "loop"
    /\ Cardinality(games) > 0
    /\ LET next == expanded(games)
       IN  /\ winning_games' = winning_games \cup { g \in next : is_game_winner(g) }
           /\ games' = next
    /\ iteration' = IF iteration < MaxIterations THEN iteration + 1 ELSE iteration
    /\ dead_ends' = dead_ends \cup
          { arrangement(g) : g \in { x \in games : Len(get_all_valid_moves(x)) = 0 } }
    /\ UNCHANGED <<pc, game, moves, winner, result, reactor_vars, build_vars,
                 snailfish_vars, cucumber_vars>>

(* one pass of `while games.len() > 0 { games = ... .collect(); }` *)
LoopBody ==
    /\ pc = "loop"
    /\ Cardinality(games) > 0
    /\ LET next == expanded(games)
       IN  /\ winning_games' = winning_games \cup { g \in next : is_game_winner(g) }
           /\ games' = { g \in next : ~is_game_winner(g) }
    /\ iteration' = IF iteration < MaxIterations THEN iteration + 1 ELSE iteration
    /\ dead_ends' = dead_ends \cup
          { arrangement(g) : g \in { x \in games : Len(get_all_valid_moves(x)) = 0 } }
    /\ UNCHANGED <<pc, game, moves, winner, result, reactor_vars, build_vars,
                 snailfish_vars, cucumber_vars>>

(* loop exit: min over winning_games, .expect("At least one winner") *)
LoopExit ==
    /\ pc = "loop"
    /\ Cardinality(games) = 0
    /\ result' = IF winning_games = {} THEN Panicked
                 ELSE Returned(min_energy(winning_games))
    /\ pc' = "done"
    /\ UNCHANGED <<amphipod_vars, reactor_vars, build_vars,
                 snailfish_vars, cucumber_vars>>

Next == LoopBody \/ LoopExit

Spec == Init /\ [][Next]_vars

(* run is one thread executing the loop and then the code after it: a step *)
(* that can be taken is taken                                              *)
FairSpec == Spec /\ WF_vars(Next)

---------------------------------------------------------------------------
(* Hand-built boards: every arrangement of at most MaxTokens amphipods,    *)
(* no more than block_depth of a kind, in rooms of depth 2 or 4.           *)

Buffers ==
    {"far_left_buffer", "left_buffer", "ab_buffer", "bc_buffer",
     "cd_buffer", "right_buffer", "far_right_buffer"}

Blocks == {"a_block", "b_block", "c_block", "d_block"}

Depths == {2, 4}

MaxTokens == 2

EmptyBoard(depth) ==
    [block_depth |-> depth,
     energy |-> 0,
     far_left_buffer |-> None,
     left_buffer |-> None,
     ab_buffer |-> None,
     bc_buffer |-> None,
     cd_buffer |-> None,
     right_buffer |-> None,
     far_right_buffer |-> None,
     a_block |-> <<>>,
     b_block |-> <<>>,
     c_block |-> <<>>,
     d_block |-> <<>>]

CountOf(g, k) ==
    Cardinality({b \in Buffers : g[b] = k})
      + Cardinality({i \in 1..Len(g.a_block) : g.a_block[i] = k})
      + Cardinality({i \in 1..Len(g.b_block) : g.b_block[i] = k})
      + Cardinality({i \in 1..Len(g.c_block) : g.c_block[i] = k})
      + Cardinality({i \in 1..Len(g.d_block) : g.d_block[i] = k})

(* room sizes and amphipod counts a board of this depth can have *)
Structural(g) ==
    /\ \A r \in Blocks : Len(g[r]) <= g.block_depth
    /\ \A k \in Amphipod : CountOf(g, k) <= g.block_depth

(* g with amphipod k put into buffer p, or on top of room p *)
Place(g, p, k) ==
    IF p \in Buffers THEN [g EXCEPT ![p] = k]
    ELSE [g EXCEPT ![p] = Append(g[p], k)]

RECURSIVE BoardsWith(_)
BoardsWith(n) ==
    IF n = 0 THEN { EmptyBoard(d) : d \in Depths }
    ELSE LET fewer == BoardsWith(n - 1)
         IN  fewer \cup
             { x \in { Place(g, p, k) : g \in fewer, p \in Buffers \cup Blocks, k \in Amphipod } :
                 Structural(x) }

HandBuilt == BoardsWith(MaxTokens)

---------------------------------------------------------------------------
(* Specification of the generator and the goal test as functions of a      *)
(* board.  The input is a hand-built board or an initial game of run.  As  *)
(* in the loop of run, a returned game becomes the next input; run does    *)
(* this only with descendants of its initial game, which hold block_depth  *)
(* amphipods of each kind, so the hand-built boards are inputs of one call *)
(* each.                                                                   *)

Complete(g) == \A k \in Amphipod : CountOf(g, k) = g.block_depth

InitMoves ==
    /\ game \in HandBuilt \cup { InitialGame(FALSE, in[1], in[2]) : in \in Inputs }
    /\ pc = "call"
    /\ moves = <<>>
    /\ winner = FALSE
    /\ games = {}
    /\ winning_games = {}
    /\ result = Running
    /\ iteration = 0
    /\ dead_ends = {}
    /\ amphipod_arguments = [additional_rows |-> FALSE]
    /\ amphipods = <<>>
    /\ OthersIdle

Call ==
    /\ pc = "call"
    /\ moves' = get_all_valid_moves(game)
    /\ winner' = is_game_winner(game)
    /\ pc' = "return"
    /\ UNCHANGED <<game, games, winning_games, result, iteration, dead_ends, reactor_vars, build_vars,
                 snailfish_vars, cucumber_vars>>

Feed ==
    /\ pc = "return"
    /\ Complete(game)
    /\ \E i \in 1..Len(moves) : game' = moves[i]
    /\ pc' = "call"
    /\ moves' = <<>>
    /\ winner' = FALSE
    /\ UNCHANGED <<games, winning_games, result, iteration, dead_ends, reactor_vars, build_vars,
                 snailfish_vars, cucumber_vars>>

NextMoves == Call \/ Feed

SpecMoves == InitMoves /\ [][NextMoves]_vars

---------------------------------------------------------------------------
(* The puzzle's rules, stated over hallway positions 0..10: what the       *)
(* properties below compare the code with.                                 *)

SlotPos(s) ==
    IF s = "far_left_buffer" THEN 0
    ELSE IF s = "left_buffer" THEN 1
    ELSE IF s = "ab_buffer" THEN 3
    ELSE IF s = "bc_buffer" THEN 5
    ELSE IF s = "cd_buffer" THEN 7
    ELSE IF s = "right_buffer" THEN 9
    ELSE 10

MouthPos(r) ==
    IF r = "a_block" THEN 2
    ELSE IF r = "b_block" THEN 4
    ELSE IF r = "c_block" THEN 6
    ELSE 8

KindOf(r) ==
    IF r = "a_block" THEN Amber
    ELSE IF r = "b_block" THEN Bronze
    ELSE IF r = "c_block" THEN Copper
    ELSE Desert

RoomOf(k) == CHOOSE r \in Blocks : KindOf(r) = k

Dist(x, y) == IF x <= y THEN y - x ELSE x - y

(* a ready room holds no amphipod of another kind (an empty room is ready) *)
Ready(g, r) == \A i \in 1..Len(g[r]) : g[r][i] = KindOf(r)

(* every hallway slot strictly between the two positions is empty *)
Clear(g, x, y) ==
    \A s \in Buffers :
        ((x < SlotPos(s) /\ SlotPos(s) < y) \/ (y < SlotPos(s) /\ SlotPos(s) < x))
            => g[s] = None

HallwayEmpty(g) == \A s \in Buffers : g[s] = None

(* every room filled to block_depth with its own kind, the hallway empty *)
Goal(g) ==
    /\ \A r \in Blocks : Len(g[r]) = g.block_depth /\ Ready(g, r)
    /\ HallwayEmpty(g)

(* the top amphipod of room r may step out to slot s *)
MayLeave(g, r, s) ==
    /\ Len(g[r]) > 0
    /\ ~Ready(g, r)
    /\ g[s] = None
    /\ Clear(g, MouthPos(r), SlotPos(s))

(* the amphipod in slot s may go home *)
MayEnter(g, s) ==
    /\ g[s] # None
    /\ Ready(g, RoomOf(g[s]))
    /\ Clear(g, SlotPos(s), MouthPos(RoomOf(g[s])))

LeaveCost(g, r, s) ==
    multiplier(g[r][Len(g[r])])
        * (Dist(SlotPos(s), MouthPos(r)) + 1 + g.block_depth - Len(g[r]))

EnterCost(g, s) ==
    multiplier(g[s])
        * (Dist(SlotPos(s), MouthPos(RoomOf(g[s]))) + g.block_depth - Len(g[RoomOf(g[s])]))

Left(g, r, s) ==
    [g EXCEPT ![s] = g[r][Len(g[r])],
              ![r] = SubSeq(g[r], 1, Len(g[r]) - 1),
              !.energy = g.energy + LeaveCost(g, r, s)]

Entered(g, s) ==
    [g EXCEPT ![s] = None,
              ![RoomOf(g[s])] = Append(g[RoomOf(g[s])], g[s]),
              !.energy = g.energy + EnterCost(g, s)]

(* the boards one legal move away from a board of bs, with the cost so far *)
LegalSuccessors(bs) ==
    { Left(x[1], x[2], x[3]) :
        x \in { y \in bs \X Blocks \X Buffers : MayLeave(y[1], y[2], y[3]) } }
    \cup
    { Entered(x[1], x[2]) :
        x \in { y \in bs \X Buffers : MayEnter(y[1], y[2]) } }

(* the total costs of the sequences of one or more legal moves that lead   *)
(* from a board of bs to a goal board                                      *)
RECURSIVE GoalCosts(_)
GoalCosts(bs) ==
    IF bs = {} THEN {}
    ELSE LET next == LegalSuccessors(bs)
         IN  { b.energy : b \in { x \in next : Goal(x) } } \cup GoalCosts(next)

Least(S) == CHOOSE n \in S : \A m \in S : n <= m

---------------------------------------------------------------------------
(* Properties of run (specification Spec) *)

(* C1: for every well-formed initial board from which a goal board is      *)
(* reachable by at least one move, run returns the minimum, over all       *)
(* sequences of legal moves from the initial board to a goal board, of the *)
(* sum of the costs of the moves.                                          *)
C1_RunReturnsMinimumCost ==
    pc = "done" =>
        LET costs == GoalCosts({game})
        IN  costs # {} => result = Returned(Least(costs))

(* a finished run on a board that has goal sequences of different cost *)
C1_Witness ==
    /\ pc = "done"
    /\ result.kind = "returned"
    /\ Cardinality(GoalCosts({game})) > 1

(* C2: when the frontier empties without any goal board having been        *)
(* generated, run ends in a distinguishable no-solution result: it does    *)
(* not panic and does not return zero.                                     *)
C2_NoSolutionIsAResult ==
    (pc = "done" /\ winning_games = {}) =>
        (result # Panicked /\ result # Returned(0))

(* C3: when the initial board is already a goal board, run reports 0. *)
C3_GoalAtStartCostsZero ==
    (pc = "done" /\ Goal(game)) => result = Returned(0)

---------------------------------------------------------------------------
(* Properties of the goal test and the move generator (SpecMoves).  At     *)
(* pc = "return", moves = get_all_valid_moves(game) and                    *)
(* winner = is_game_winner(game).                                          *)

(* the returned games in which room r has lost an amphipod *)
OutOf(r) == { i \in 1..Len(moves) : Len(moves[i][r]) < Len(game[r]) }

(* the returned games in which hallway slot s has been vacated *)
From(s) == { i \in 1..Len(moves) : moves[i][s] = None }

(* the same arrangement of hallway and rooms, whatever the energy *)
SameBoard(x, y) == [x EXCEPT !.energy = 0] = [y EXCEPT !.energy = 0]

(* the empty slots an amphipod leaving room r can walk to *)
OpenSlots(r) ==
    { s \in Buffers : game[s] = None /\ Clear(game, MouthPos(r), SlotPos(s)) }

(* C4: for every board, reachable or hand-built, is_game_winner is true    *)
(* if and only if each room holds exactly block_depth amphipods, all of    *)
(* the room's own kind, and all seven hallway slots are empty.             *)
C4_WinnerIffEveryRoomFull ==
    pc = "return" => (winner <=> Goal(game))

(* C5: every game returned by get_all_valid_moves holds the same multiset  *)
(* of amphipods, over the four rooms and seven hallway slots, as its input.*)
C5_AmphipodsConserved ==
    pc = "return" =>
        \A i \in 1..Len(moves) : \A k \in Amphipod :
            CountOf(moves[i], k) = CountOf(game, k)

(* a board with all its amphipods and several successors *)
C5_Witness ==
    /\ pc = "return"
    /\ Complete(game)
    /\ OutOf("a_block") # {}
    /\ \E s \in Buffers : game[s] # None /\ From(s) # {}

(* C6: for every board reachable from a well-formed initial board, every   *)
(* returned game has an energy at least 1 above the input's.               *)
C6_EnergyStrictlyIncreases ==
    (pc = "return" /\ Complete(game)) =>
        \A i \in 1..Len(moves) : moves[i].energy - game.energy >= 1

(* a board some moves away from an initial board, with a move into a room  *)
(* that the move fills up                                                  *)
C6_Witness ==
    /\ pc = "return"
    /\ Complete(game)
    /\ game.energy > 0
    /\ \E s \in Buffers :
          /\ game[s] # None
          /\ From(s) # {}
          /\ Len(game[RoomOf(game[s])]) = game.block_depth - 1

(* C7: for each room that is not ready, the returned games that take an    *)
(* amphipod out of it are exactly one per hallway slot s such that s and   *)
(* every slot between the room's mouth and s are empty, each with the      *)
(* room's top amphipod in s; a ready room (an empty one too) has none.     *)
C7_RoomExitsAreTheOpenSlots ==
    pc = "return" =>
        \A r \in Blocks :
            IF Ready(game, r) THEN OutOf(r) = {}
            ELSE /\ Cardinality(OutOf(r)) = Cardinality(OpenSlots(r))
                 /\ \A s \in OpenSlots(r) :
                        \E i \in OutOf(r) : SameBoard(moves[i], Left(game, r, s))

(* a room that is not ready with an open slot and a slot cut off by an     *)
(* amphipod standing in the hallway                                        *)
C7_Witness ==
    /\ pc = "return"
    /\ \E r \in Blocks :
          /\ ~Ready(game, r)
          /\ OutOf(r) # {}
          /\ \E s \in Buffers : game[s] = None /\ s \notin OpenSlots(r)

(* C8: with the hallway numbered 0..10, a move from room r to slot s adds  *)
(* multiplier * (|pos(s) - pos(mouth r)| + 1 + block_depth - n) to energy, *)
(* n being the number of amphipods in r before the move.                   *)
C8_RoomExitCost ==
    pc = "return" =>
        \A r \in Blocks : \A i \in OutOf(r) : \A s \in Buffers :
            (game[s] = None /\ moves[i][s] # None) =>
                moves[i].energy - game.energy =
                    multiplier(moves[i][s])
                      * (Dist(SlotPos(s), MouthPos(r)) + 1 + game.block_depth - Len(game[r]))

(* a move out of a room that is not full: more than one step up *)
C8_Witness ==
    /\ pc = "return"
    /\ \E r \in Blocks :
          /\ OutOf(r) # {}
          /\ Len(game[r]) < game.block_depth
          /\ game[r][Len(game[r])] # Amber

(* C9: an occupied hallway slot has a returned game moving its amphipod if *)
(* and only if the room of the amphipod's kind is ready and every slot     *)
(* strictly between the slot and that room's mouth is empty; there is at   *)
(* most one such game, and in it the slot is empty and the amphipod is on  *)
(* top of that room.                                                       *)
C9_HallwayMovesGoHome ==
    pc = "return" =>
        \A s \in Buffers :
            game[s] # None =>
                /\ From(s) # {} <=>
                      /\ Ready(game, RoomOf(game[s]))
                      /\ Clear(game, SlotPos(s), MouthPos(RoomOf(game[s])))
                /\ Cardinality(From(s)) <= 1
                /\ \A i \in From(s) : SameBoard(moves[i], Entered(game, s))

(* one amphipod goes home while another, behind it, is cut off from its    *)
(* ready room                                                              *)
C9_Witness ==
    /\ pc = "return"
    /\ \E s \in Buffers : game[s] # None /\ From(s) # {}
    /\ \E s \in Buffers :
          /\ game[s] # None
          /\ From(s) = {}
          /\ Ready(game, RoomOf(game[s]))

(* C10: with the hallway numbered 0..10, a move from slot s into the room  *)
(* of the amphipod's kind adds                                             *)
(* multiplier * (|pos(s) - pos(mouth)| + block_depth - n) to energy, n     *)
(* being the number of amphipods in that room before the move.             *)
C10_RoomEntryCost ==
    pc = "return" =>
        \A s \in Buffers : \A i \in From(s) :
            game[s] # None =>
                moves[i].energy - game.energy =
                    multiplier(game[s])
                      * (Dist(SlotPos(s), MouthPos(RoomOf(game[s])))
                           + game.block_depth - Len(game[RoomOf(game[s])]))

(* a move into a room of depth 4 that already holds one of its own *)
C10_Witness ==
    /\ pc = "return"
    /\ game.block_depth = 4
    /\ \E s \in Buffers :
          /\ game[s] # None
          /\ From(s) # {}
          /\ Len(game[RoomOf(game[s])]) = 1

(* the arrangement of g after its top amphipod of room r has been put into *)
(* the empty slot s, and nothing else has changed                          *)
IsExit(g, h, r, s) ==
    /\ Len(g[r]) > 0
    /\ g[s] = None
    /\ SameBoard(h, [g EXCEPT ![s] = g[r][Len(g[r])],
                              ![r] = SubSeq(g[r], 1, Len(g[r]) - 1)])

(* the arrangement of g after the amphipod in slot s has been put on top   *)
(* of the room of its own kind, and nothing else has changed               *)
IsEntry(g, h, s) ==
    /\ g[s] # None
    /\ SameBoard(h, [g EXCEPT ![s] = None,
                              ![RoomOf(g[s])] = Append(g[RoomOf(g[s])], g[s])])

(* C11: every game returned by get_all_valid_moves differs from its input  *)
(* by exactly one relocation: the top amphipod of one room put into a      *)
(* hallway slot that was empty in the input, or one hallway amphipod put   *)
(* on top of the room of its own kind.  No other change of arrangement     *)
(* (slot to slot, room to room, into a room of another kind, onto an       *)
(* occupied slot) is returned.                                             *)
C11_OneRelocationPerMove ==
    pc = "return" =>
        \A i \in 1..Len(moves) :
            \/ \E r \in Blocks : \E s \in Buffers : IsExit(game, moves[i], r, s)
            \/ \E s \in Buffers : IsEntry(game, moves[i], s)

(* a board whose returned games hold an exit from a room next to an        *)
(* occupied slot and an entry into a room                                  *)
C11_Witness ==
    /\ pc = "return"
    /\ \E i \in 1..Len(moves) : \E r \in Blocks : \E s \in Buffers :
          /\ IsExit(game, moves[i], r, s)
          /\ \E t \in Buffers : game[t] # None
    /\ \E i \in 1..Len(moves) : \E s \in Buffers : IsEntry(game, moves[i], s)

(* C12: get_all_valid_moves leaves its input as it was, and every game it  *)
(* returns has the input's block_depth and the input's contents in every   *)
(* room but one and in every hallway slot but one.                         *)
C12_MovesFrame ==
    [][pc = "call" =>
          /\ game' = game
          /\ \A i \in 1..Len(moves') :
                /\ moves'[i].block_depth = game.block_depth
                /\ \E r \in Blocks : \E s \in Buffers :
                      /\ \A q \in Blocks \ {r} : moves'[i][q] = game[q]
                      /\ \A t \in Buffers \ {s} : moves'[i][t] = game[t]]_vars

(* a board with all its amphipods, one of them standing in the hallway and *)
(* staying there in a returned game that moves another                     *)
C12_Witness ==
    /\ pc = "return"
    /\ Complete(game)
    /\ \E i \in 1..Len(moves) : \E t \in Buffers :
          /\ game[t] # None
          /\ moves[i][t] = game[t]
          /\ moves[i] # game

(* C17: for every board on which is_game_winner is true,                   *)
(* get_all_valid_moves returns no game: a search continued from a goal     *)
(* board produces no further board.                                        *)
C17_WinnersHaveNoMoves ==
    (pc = "return" /\ winner) => Len(moves) = 0

(* a goal board reached by moves from an initial game, and given to the    *)
(* generator                                                               *)
C17_Witness ==
    /\ pc = "return"
    /\ winner
    /\ Goal(game)
    /\ game.energy > 0

---------------------------------------------------------------------------
(* Properties of the loop of run (specification Spec) *)

(* C13: after every pass of the loop, the frontier holds at most one game  *)
(* per arrangement of hallway and rooms: two games of the frontier with    *)
(* the same slots and rooms are one game, the costlier path to an          *)
(* arrangement having been discarded.                                      *)
C13_OneEntryPerArrangement ==
    \A x \in games : \A y \in games : SameBoard(x, y) => x = y

(* C14: at the end of every pass of the loop no game of the frontier       *)
(* satisfies is_game_winner: of the games one legal move away from the     *)
(* frontier the pass started with, every winner is in winning_games and    *)
(* not in the next frontier, and every other one is in the next frontier.  *)
C14_WinnersLeaveTheFrontier ==
    [][(pc = "loop" /\ games # {}) =>
          /\ \A g \in games' : ~is_game_winner(g)
          /\ \A g \in LegalSuccessors(games) :
                IF is_game_winner(g)
                THEN g \in winning_games' /\ g \notin games'
                ELSE g \in games']_vars

(* several passes have kept games that are no winners in the frontier,    *)
(* and the last one has recorded more than one winner                      *)
C14_Witness ==
    /\ pc = "loop"
    /\ iteration >= 4
    /\ Cardinality(winning_games) > 1
    /\ \A g \in winning_games : is_game_winner(g) /\ g \notin games

(* C15: a game of the frontier for which get_all_valid_moves returns no    *)
(* game adds nothing to the next frontier, and its arrangement, dropped as *)
(* a dead end, is in no later frontier.                                    *)
C15_DeadEndsStayDropped ==
    \A g \in games : arrangement(g) \notin dead_ends

(* an arrangement that is no winner has been dropped as a dead end while   *)
(* the search goes on from other games                                     *)
C15_Witness ==
    /\ pc = "loop"
    /\ games # {}
    /\ \E d \in dead_ends : ~Goal(d) /\ d # arrangement(game)

---------------------------------------------------------------------------
(* Termination of run (specification FairSpec) *)

(* C16: for every well-formed initial board the loop of run terminates:    *)
(* the frontier becomes empty, after at most 2 * 4 * block_depth passes.   *)
C16_LoopTerminates ==
    <>(games = {} /\ iteration <= 2 * 4 * game.block_depth)

(* a run that has left the loop after six passes, having dropped dead     *)
(* ends on the way                                                         *)
C16_Witness ==
    /\ pc = "done"
    /\ games = {}
    /\ iteration >= 6
    /\ dead_ends # {}

---------------------------------------------------------------------------
(* The swapped pair (specification Spec) *)

(* rooms i and j hold each other's amphipod on top, every other amphipod   *)
(* is in its own room                                                      *)
SwappedRows(i, j) ==
    [k \in 1..4 |-> IF k = i THEN OwnKind[j] ELSE IF k = j THEN OwnKind[i] ELSE OwnKind[k]]

SwappedTops(g) ==
    \E i \in 1..4 : \E j \in 1..4 :
        i # j /\ g = InitialGame(FALSE, SwappedRows(i, j), OwnKind)

(* rooms, bottom to top: A = [Amber, Bronze], B = [Bronze, Amber],         *)
(* C = [Copper, Copper], D = [Desert, Desert]                              *)
SwappedExample == InitialGame(FALSE, SwappedRows(1, 2), OwnKind)

(* C18: from a depth-2 initial board on which two rooms hold each other's  *)
(* amphipod on top and every other amphipod is home, goal boards are       *)
(* generated in the 4th pass of the loop and in no other, and run returns  *)
(* the least total cost of the sequences of legal moves that reach a goal  *)
(* board; for rooms A and B that is 46.                                    *)
C18_SwappedTopsTakeFourMoves ==
    [][SwappedTops(game) =>
          /\ winning_games' # winning_games => iteration' = 4
          /\ pc' = "done" =>
                /\ winning_games' # {}
                /\ result' = Returned(Least(GoalCosts({game})))
                /\ game = SwappedExample => result' = Returned(46)]_vars

(* run has ended on the board with the tops of rooms A and B swapped,      *)
(* after goal boards of different cost were recorded                       *)
C18_Witness ==
    /\ pc = "done"
    /\ game = SwappedExample
    /\ iteration = 4
    /\ Cardinality({ w.energy : w \in winning_games }) > 1
    /\ result = Returned(46)

---------------------------------------------------------------------------
(* Reactor reboot (src/src/reactor_reboot.rs): ranges, cuboids, steps.     *)
(* An Option is the sequence of what it holds: Some(v) has one element,    *)
(* Option::None has none, and Option::into_iter is the sequence itself.    *)

Some(v) == <<v>>

Nothing == <<>>

Range(low, high) == [low |-> low, high |-> high]

Cuboid(x_range, y_range, z_range) ==
    [x_range |-> x_range, y_range |-> y_range, z_range |-> z_range]

RebootStep(turn_on, cuboid) == [turn_on |-> turn_on, cuboid |-> cuboid]

max(a, b) == IF a >= b THEN a ELSE b

min(a, b) == IF a <= b THEN a ELSE b

get_range_size(range) == range.high - range.low + 1

get_cuboid_size(cuboid) ==
    get_range_size(cuboid.x_range)
        * get_range_size(cuboid.y_range)
        * get_range_size(cuboid.z_range)

get_range_from_low_high(low, high) ==
    IF high < low THEN Nothing ELSE Some(Range(low, high))

get_range_intersection(first, second) ==
    get_range_from_low_high(max(first.low, second.low), min(first.high, second.high))

get_cuboid_intersection(first, second) ==
    LET x_intersection == get_range_intersection(first.x_range, second.x_range)
        y_intersection == get_range_intersection(first.y_range, second.y_range)
        z_intersection == get_range_intersection(first.z_range, second.z_range)
    IN  IF x_intersection # Nothing /\ y_intersection # Nothing /\ z_intersection # Nothing
        THEN Some(Cuboid(x_intersection[1], y_intersection[1], z_intersection[1]))
        ELSE Nothing

(* variant: the high range starts at the sub range's last coordinate *)
get_high_range_from_sub_high(base, sub_range) ==
    get_range_from_low_high(sub_range.high, base.high)

get_high_range(base, sub_range) ==
    get_range_from_low_high(sub_range.high + 1, base.high)

get_low_range(base, sub_range) ==
    get_range_from_low_high(base.low, sub_range.low - 1)

LowTarget == -50

HighTarget == 50

is_step_within_target(reboot_step, low_target, high_target) ==
    LET target_cuboid == Cuboid(Range(low_target, high_target),
                                Range(low_target, high_target),
                                Range(low_target, high_target))
    IN  get_cuboid_intersection(reboot_step.cuboid, target_cuboid) # Nothing

(* fracture_cuboid: the 26 pushes in source order, then                    *)
(* ranges.into_iter().map(Option::into_iter).flatten().collect().  Each    *)
(* push is Some(Cuboid) when the Option<Range> it matches on are all Some, *)
(* and Option::None otherwise.                                             *)
fracture_cuboid(base, sub_cube) ==
    LET x_high_range == get_high_range(base.x_range, sub_cube.x_range)
        x_low_range == get_low_range(base.x_range, sub_cube.x_range)
        y_high_range == get_high_range(base.y_range, sub_cube.y_range)
        y_low_range == get_low_range(base.y_range, sub_cube.y_range)
        z_high_range == get_high_range(base.z_range, sub_cube.z_range)
        z_low_range == get_low_range(base.z_range, sub_cube.z_range)
        xh == x_high_range # Nothing
        xl == x_low_range # Nothing
        yh == y_high_range # Nothing
        yl == y_low_range # Nothing
        zh == z_high_range # Nothing
        zl == z_low_range # Nothing
        sx == sub_cube.x_range
        sy == sub_cube.y_range
        sz == sub_cube.z_range
    IN  \* top
        (IF zh THEN Some(Cuboid(sx, sy, z_high_range[1])) ELSE Nothing)
     \o (IF zh /\ xh THEN Some(Cuboid(x_high_range[1], sy, z_high_range[1])) ELSE Nothing)
     \o (IF zh /\ xl THEN Some(Cuboid(x_low_range[1], sy, z_high_range[1])) ELSE Nothing)
     \o (IF zh /\ yh THEN Some(Cuboid(sx, y_high_range[1], z_high_range[1])) ELSE Nothing)
     \o (IF zh /\ yl THEN Some(Cuboid(sx, y_low_range[1], z_high_range[1])) ELSE Nothing)
     \o (IF zh /\ yh /\ xh
         THEN Some(Cuboid(x_high_range[1], y_high_range[1], z_high_range[1])) ELSE Nothing)
     \o (IF zh /\ yh /\ xl
         THEN Some(Cuboid(x_low_range[1], y_high_range[1], z_high_range[1])) ELSE Nothing)
     \o (IF zh /\ yl /\ xh
         THEN Some(Cuboid(x_high_range[1], y_low_range[1], z_high_range[1])) ELSE Nothing)
     \o (IF zh /\ yl /\ xl
         THEN Some(Cuboid(x_low_range[1], y_low_range[1], z_high_range[1])) ELSE Nothing)
        \* middle
     \o (IF xh THEN Some(Cuboid(x_high_range[1], sy, sz)) ELSE Nothing)
     \o (IF xl THEN Some(Cuboid(x_low_range[1], sy, sz)) ELSE Nothing)
     \o (IF yh THEN Some(Cuboid(sx, y_high_range[1], sz)) ELSE Nothing)
     \o (IF yl THEN Some(Cuboid(sx, y_low_range[1], sz)) ELSE Nothing)
     \o (IF xh /\ yh THEN Some(Cuboid(x_high_range[1], y_high_range[1], sz)) ELSE Nothing)
     \o (IF xl /\ yh THEN Some(Cuboid(x_low_range[1], y_high_range[1], sz)) ELSE Nothing)
     \o (IF xh /\ yl THEN Some(Cuboid(x_high_range[1], y_low_range[1], sz)) ELSE Nothing)
     \o (IF xl /\ yl THEN Some(Cuboid(x_low_range[1], y_low_range[1], sz)) ELSE Nothing)
        \* bottom
     \o (IF zl THEN Some(Cuboid(sx, sy, z_low_range[1])) ELSE Nothing)
     \o (IF zl /\ xh THEN Some(Cuboid(x_high_range[1], sy, z_low_range[1])) ELSE Nothing)
     \o (IF zl /\ xl THEN Some(Cuboid(x_low_range[1], sy, z_low_range[1])) ELSE Nothing)
     \o (IF zl /\ yh THEN Some(Cuboid(sx, y_high_range[1], z_low_range[1])) ELSE Nothing)
     \o (IF zl /\ yl THEN Some(Cuboid(sx, y_low_range[1], z_low_range[1])) ELSE Nothing)
     \o (IF zl /\ yh /\ xh
         THEN Some(Cuboid(x_high_range[1], y_high_range[1], z_low_range[1])) ELSE Nothing)
     \o (IF zl /\ yh /\ xl
         THEN Some(Cuboid(x_low_range[1], y_high_range[1], z_low_range[1])) ELSE Nothing)
     \o (IF zl /\ yl /\ xh
         THEN Some(Cuboid(x_high_range[1], y_low_range[1], z_low_range[1])) ELSE Nothing)
     \o (IF zl /\ yl /\ xl
         THEN Some(Cuboid(x_low_range[1], y_low_range[1], z_low_range[1])) ELSE Nothing)

(* the elements of a Vec, as collect() puts them into a HashSet *)
collected(vec) == { vec[i] : i \in 1..Len(vec) }

(* variant: a cube the step's cuboid meets is kept whole *)
step_applied_without_fracture(cubes, step) ==
    IF step.turn_on THEN cubes \cup {step.cuboid} ELSE cubes

(* run_steps, the body of for_each: on_cubes after the step *)
step_applied(cubes, step) ==
    LET fractured ==
            UNION { collected(
                        LET intersection == get_cuboid_intersection(cube, step.cuboid)
                        IN  IF intersection # Nothing
                            THEN fracture_cuboid(cube, intersection[1])
                            ELSE <<cube>>) : cube \in cubes }
    IN  IF step.turn_on THEN fractured \cup {step.cuboid} ELSE fractured

(* run: .iter().map(get_cuboid_size).fold(0isize, |acc, value| acc + value) *)
(* The sizes of this model's cuboids are far from the ends of isize.       *)
RECURSIVE fold_sizes(_)
fold_sizes(cubes) ==
    IF cubes = {} THEN 0
    ELSE LET cube == CHOOSE c \in cubes : TRUE
         IN  get_cuboid_size(cube) + fold_sizes(cubes \ {cube})

---------------------------------------------------------------------------
(* Bounded inputs of the reactor reboot: cuboids with low <= high on every *)
(* axis, over two coordinates per axis; x lies across the upper end of the *)
(* limited region, y across its lower end, z inside it.                    *)

XCoords == {HighTarget, HighTarget + 1}

YCoords == {LowTarget - 1, LowTarget}

ZCoords == {0, 1}

Ranges(coords) ==
    { r \in { Range(l, h) : l \in coords, h \in coords } : r.low <= r.high }

Cuboids ==
    { Cuboid(x, y, z) : x \in Ranges(XCoords), y \in Ranges(YCoords), z \in Ranges(ZCoords) }

RebootSteps == { RebootStep(t, c) : t \in BOOLEAN, c \in Cuboids }

MaxSteps == 2

StepLists == UNION { [1..n -> RebootSteps] : n \in 0..MaxSteps }

---------------------------------------------------------------------------
(* Specification of the reactor reboot's run *)

(* the amphipod search has not been started *)
AmphipodIdle ==
    /\ game = EmptyBoard(2)
    /\ moves = <<>>
    /\ winner = FALSE
    /\ games = {}
    /\ winning_games = {}
    /\ iteration = 0
    /\ dead_ends = {}
    /\ amphipod_arguments = [additional_rows |-> FALSE]
    /\ amphipods = <<>>

InitReactor ==
    /\ pc = "filter"
    /\ arguments \in [limit_cubes : BOOLEAN]
    /\ reboot_steps \in StepLists
    /\ filtered_steps = <<>>
    /\ on_cubes = {}
    /\ result = Running
    /\ FractureIdle
    /\ AmphipodIdle
    /\ SnailfishIdle
    /\ CucumberIdle

(* run: let filtered_steps = if arguments.limit_cubes { filter } else { all } *)
FilterSteps ==
    /\ pc = "filter"
    /\ filtered_steps' =
          IF arguments.limit_cubes
          THEN SelectSeq(reboot_steps,
                         LAMBDA step : is_step_within_target(step, LowTarget, HighTarget))
          ELSE reboot_steps
    /\ pc' = "run_steps"
    /\ UNCHANGED <<result, arguments, reboot_steps, on_cubes, fracture_vars, amphipod_vars, build_vars,
                 snailfish_vars, cucumber_vars>>

(* run_steps: for_each takes the next step *)
RunStep ==
    /\ pc = "run_steps"
    /\ Len(filtered_steps) > 0
    /\ on_cubes' = step_applied(on_cubes, Head(filtered_steps))
    /\ filtered_steps' = Tail(filtered_steps)
    /\ UNCHANGED <<pc, result, arguments, reboot_steps, fracture_vars, amphipod_vars, build_vars,
                 snailfish_vars, cucumber_vars>>

(* run_steps returns on_cubes; run sums the sizes *)
SumSizes ==
    /\ pc = "run_steps"
    /\ Len(filtered_steps) = 0
    /\ result' = Returned(fold_sizes(on_cubes))
    /\ pc' = "done"
    /\ UNCHANGED <<arguments, reboot_steps, filtered_steps, on_cubes, fracture_vars, amphipod_vars, build_vars,
                 snailfish_vars, cucumber_vars>>

NextReactor == FilterSteps \/ RunStep \/ SumSizes

SpecReactor == InitReactor /\ [][NextReactor]_vars

---------------------------------------------------------------------------
(* What the reboot steps mean, cube by cube: what the properties below     *)
(* compare run with.                                                       *)

UnitCubes == XCoords \X YCoords \X ZCoords

Within(p, cuboid) ==
    /\ cuboid.x_range.low <= p[1] /\ p[1] <= cuboid.x_range.high
    /\ cuboid.y_range.low <= p[2] /\ p[2] <= cuboid.y_range.high
    /\ cuboid.z_range.low <= p[3] /\ p[3] <= cuboid.z_range.high

(* the steps whose cuboid holds the unit cube p *)
Covering(steps, p) == { i \in 1..Len(steps) : Within(p, steps[i].cuboid) }

(* the unit cubes that are on after the steps, applied in order: those     *)
(* whose last covering step turns on                                       *)
LitCubes(steps) ==
    { p \in UnitCubes :
        /\ Covering(steps, p) # {}
        /\ \E i \in Covering(steps, p) :
              /\ \A j \in Covering(steps, p) : j <= i
              /\ steps[i].turn_on }

InRegion(p) == \A d \in 1..3 : LowTarget <= p[d] /\ p[d] <= HighTarget

C20_LimitedRunCountsRegionOnly ==
    (pc = "done" /\ arguments.limit_cubes) =>
        result = Returned(Cardinality({ p \in LitCubes(reboot_steps) : InRegion(p) }))

---------------------------------------------------------------------------
(* Snailfish (src/src/snailfish.rs): enum SnailNumber, struct Pair, add    *)
(* with its explode / split loop, magnitude.  The values of this model are *)
(* far from the end of usize.                                              *)

Literal(value) == [kind |-> "Literal", value |-> value]

Number(pair) == [kind |-> "Number", pair |-> pair]

Pair(left, right) == [left |-> left, right |-> right]

RECURSIVE add_to_first_available_left(_, _)
add_to_first_available_left(pair, carry) ==
    LET left == IF pair.left.kind = "Literal"
                THEN Literal(pair.left.value + carry)
                ELSE Number(add_to_first_available_left(pair.left.pair, carry))
    IN  Pair(left, pair.right)

RECURSIVE add_to_furthest_available_right(_, _)
add_to_furthest_available_right(snail_number, carry) ==
    IF snail_number.kind = "Literal"
    THEN Literal(snail_number.value + carry)
    ELSE Number(Pair(snail_number.pair.left,
                     add_to_furthest_available_right(snail_number.pair.right, carry)))

(* explode and explode_snail_number return the tuple                       *)
(* (result, did_explode, left_carry, right_carry)                          *)
RECURSIVE explode(_, _)
RECURSIVE explode_snail_number(_, _)
explode(pair, depth) ==
    LET from_left == explode_snail_number(pair.left, depth)
    IN  IF from_left[2]
        THEN LET right_carry == from_left[4]
                 right ==
                    IF pair.right.kind = "Literal"
                    THEN IF right_carry # Nothing
                         THEN Literal(pair.right.value + right_carry[1])
                         ELSE Literal(pair.right.value)
                    ELSE IF right_carry # Nothing
                         THEN Number(add_to_first_available_left(pair.right.pair, right_carry[1]))
                         ELSE Number(pair.right.pair)
             IN  <<Pair(from_left[1], right), TRUE, from_left[3], Nothing>>
        ELSE LET from_right == explode_snail_number(pair.right, depth)
                 left_carry == from_right[3]
                 left == IF left_carry # Nothing
                         THEN add_to_furthest_available_right(from_left[1], left_carry[1])
                         ELSE from_left[1]
             IN  <<Pair(left, from_right[1]), from_right[2], Nothing, from_right[4]>>

explode_snail_number(snail_number, depth) ==
    IF snail_number.kind = "Literal"
    THEN <<Literal(snail_number.value), FALSE, Nothing, Nothing>>
    ELSE IF depth = 3
         THEN <<Literal(0), TRUE,
                Some(IF snail_number.pair.left.kind = "Literal"
                     THEN snail_number.pair.left.value ELSE 0),
                Some(IF snail_number.pair.right.kind = "Literal"
                     THEN snail_number.pair.right.value ELSE 0)>>
         ELSE LET exploded == explode(snail_number.pair, depth + 1)
              IN  <<Number(exploded[1]), exploded[2], exploded[3], exploded[4]>>

(* split and split_snail_number return the tuple (result, did_split) *)
RECURSIVE split(_)
RECURSIVE split_snail_number(_)
split(pair) ==
    LET from_left == split_snail_number(pair.left)
    IN  IF from_left[2]
        THEN <<Pair(from_left[1], pair.right), TRUE>>
        ELSE LET from_right == split_snail_number(pair.right)
             IN  <<Pair(from_left[1], from_right[1]), from_right[2]>>

split_snail_number(snail_number) ==
    IF snail_number.kind = "Literal"
    THEN IF snail_number.value > 9
         THEN LET remainder == snail_number.value % 2
              IN  <<Number(Pair(Literal(snail_number.value \div 2),
                                Literal(snail_number.value \div 2 + remainder))), TRUE>>
         ELSE <<Literal(snail_number.value), FALSE>>
    ELSE LET from_pair == split(snail_number.pair)
         IN  <<Number(from_pair[1]), from_pair[2]>>

(* the loop of add: explode, continue if it did; split, continue if it did *)
RECURSIVE add_loop(_)
add_loop(pair) ==
    LET exploded == explode(pair, 0)
    IN  IF exploded[2] THEN add_loop(exploded[1])
        ELSE LET splitted == split(exploded[1])
             IN  IF splitted[2] THEN add_loop(splitted[1]) ELSE splitted[1]

add(left, right) == add_loop(Pair(Number(left), Number(right)))

RECURSIVE magnitude(_)
RECURSIVE magnitude_snail_number(_)
magnitude(pair) ==
    3 * magnitude_snail_number(pair.left) + 2 * magnitude_snail_number(pair.right)

magnitude_snail_number(snail_number) ==
    IF snail_number.kind = "Literal" THEN snail_number.value
    ELSE magnitude(snail_number.pair)


---------------------------------------------------------------------------
(* Specification of snailfish run with question max-sum.  The input is a   *)
(* list of at least one pair: with an empty list pairs.len() - 1 leaves    *)
(* usize.                                                                  *)

MaxEntries == 3

(* [[[[4,3],4],4],[7,[[8,4],9]]] : its sum with [1,1] explodes and splits *)
DeepEntry ==
    Pair(Number(Pair(Number(Pair(Number(Pair(Literal(4), Literal(3))), Literal(4))),
                     Literal(4))),
         Number(Pair(Literal(7),
                     Number(Pair(Number(Pair(Literal(8), Literal(4))), Literal(9))))))

Entries ==
    { Pair(Literal(a), Literal(b)) : a \in {0, 9}, b \in {0, 9} }
        \cup { Pair(Literal(1), Literal(1)), DeepEntry }

PairLists == UNION { [1..n -> Entries] : n \in 1..MaxEntries }

InitSnailfish ==
    /\ pc = "for_i"
    /\ pairs \in PairLists
    /\ index_i = 0
    /\ index_j = 0
    /\ max_magnitude = 0
    /\ result = Running
    /\ AmphipodIdle /\ ReactorIdle /\ CucumberIdle

(* for i in 0..(pairs.len() - 1): the next i starts the inner loop at j = i *)
ForI ==
    /\ pc = "for_i"
    /\ index_i < Len(pairs) - 1
    /\ index_j' = index_i
    /\ pc' = "for_j"
    /\ UNCHANGED <<pairs, index_i, max_magnitude, result, amphipod_vars, reactor_vars,
                 build_vars, cucumber_vars>>

(* the body of for j in i..pairs.len() *)
ForJ ==
    /\ pc = "for_j"
    /\ index_j < Len(pairs)
    /\ LET first == magnitude(add(pairs[index_i + 1], pairs[index_j + 1]))
           second == magnitude(add(pairs[index_j + 1], pairs[index_i + 1]))
       IN  max_magnitude' = max(second, max(first, max_magnitude))
    /\ index_j' = index_j + 1
    /\ UNCHANGED <<pc, pairs, index_i, result, amphipod_vars, reactor_vars,
                 build_vars, cucumber_vars>>

ForJDone ==
    /\ pc = "for_j"
    /\ index_j >= Len(pairs)
    /\ index_i' = index_i + 1
    /\ pc' = "for_i"
    /\ UNCHANGED <<pairs, index_j, max_magnitude, result, amphipod_vars, reactor_vars,
                 build_vars, cucumber_vars>>

ReturnMax ==
    /\ pc = "for_i"
    /\ index_i >= Len(pairs) - 1
    /\ result' = Returned(max_magnitude)
    /\ pc' = "done"
    /\ UNCHANGED <<snailfish_vars, amphipod_vars, reactor_vars, build_vars, cucumber_vars>>

NextSnailfish == ForI \/ ForJ \/ ForJDone \/ ReturnMax

SpecSnailfish == InitSnailfish /\ [][NextSnailfish]_vars

(* the largest magnitude of a sum of two different entries of the list *)
SumsOfTwo(list) ==
    { magnitude(add(list[ab[1]], list[ab[2]])) :
        ab \in { cd \in (1..Len(list)) \X (1..Len(list)) : cd[1] # cd[2] } }

Largest(set) == CHOOSE v \in set : \A w \in set : w <= v

(* C21: run with question max-sum returns the largest magnitude(add(x, y)) *)
(* over the ordered pairs of two different entries of the list; the sum of *)
(* an entry with itself is not a candidate.                                *)
C21_MaxSumOfTwoDifferentEntries ==
    (pc = "done" /\ Len(pairs) >= 2) =>
        result = Returned(Largest(SumsOfTwo(pairs)))


---------------------------------------------------------------------------
(* Sea cucumbers (src/src/sea_cucumber.rs).  The grid is a sequence of     *)
(* rows; the code indexes rows with i and columns with j from 0.  Every    *)
(* row of a grid has the same length (with a shorter row below, the        *)
(* lookup of the lower neighbour fails).                                   *)

Right == ">"

Down == "v"

Vacant == "."

SeaCucumber == {Right, Down, Vacant}

at(grid, i, j) == grid[i + 1][j + 1]

(* the positions (i, j) in the order of the two nested for loops *)
scanned(grid) ==
    LET columns == Len(grid[1])
    IN  [k \in 1..(Len(grid) * columns) |-> <<(k - 1) \div columns, (k - 1) % columns>>]

(* first scan of run_step: the movements (cucumber, (i, j), (i, next)) *)
right_movements(grid) ==
    LET next(j) == IF j + 1 = Len(grid[1]) THEN 0 ELSE j + 1
        moves_right(p) == at(grid, p[1], p[2]) = Right /\ at(grid, p[1], next(p[2])) = Vacant
        from == SelectSeq(scanned(grid), moves_right)
    IN  [k \in 1..Len(from) |-> <<Right, from[k], <<from[k][1], next(from[k][2])>>>>]

(* second scan of run_step: the movements (cucumber, (i, j), (next, j)) *)
down_movements(grid) ==
    LET next(i) == IF i + 1 = Len(grid) THEN 0 ELSE i + 1
        moves_down(p) == at(grid, p[1], p[2]) = Down /\ at(grid, next(p[1]), p[2]) = Vacant
        from == SelectSeq(scanned(grid), moves_down)
    IN  [k \in 1..Len(from) |-> <<Down, from[k], <<next(from[k][1]), from[k][2]>>>>]

(* movements.iter().for_each: one movement after the other, the old place *)
(* is cleared, then the new place is written                              *)
RECURSIVE moved(_, _)
moved(grid, movements) ==
    IF movements = <<>> THEN grid
    ELSE LET movement == Head(movements)
             cleared == [grid EXCEPT ![movement[2][1] + 1][movement[2][2] + 1] = Vacant]
             written == [cleared EXCEPT ![movement[3][1] + 1][movement[3][2] + 1] = movement[1]]
         IN  moved(written, Tail(movements))

run_step_down_scans_old_grid(grid) ==
    LET to_right == right_movements(grid)
        after_right == moved(grid, to_right)
        to_down == down_movements(grid)
    IN  <<moved(after_right, to_down), Len(to_right) + Len(to_down)>>

(* run_step returns count and leaves the grid changed: <<grid, count>> *)
run_step(grid) ==
    LET to_right == right_movements(grid)
        after_right == moved(grid, to_right)
        to_down == down_movements(after_right)
    IN  <<moved(after_right, to_down), Len(to_right) + Len(to_down)>>

---------------------------------------------------------------------------
(* Specification of the sea cucumber run.  A grid that never comes to rest *)
(* keeps run in its loop; the model follows the loop for MaxEvents steps.  *)

MaxCells == 6

MaxEvents == 8

Shapes == { shape \in (1..MaxCells) \X (1..MaxCells) : shape[1] * shape[2] <= MaxCells }

Grids == UNION { [1..shape[1] -> [1..shape[2] -> SeaCucumber]] : shape \in Shapes }

InitCucumber ==
    /\ pc = "loop"
    /\ cucumber_file \in Grids
    /\ sea_cucumbers = cucumber_file
    /\ event_count = 0
    /\ result = Running
    /\ AmphipodIdle /\ ReactorIdle /\ SnailfishIdle

(* one pass of the loop of run *)
RunLoop ==
    /\ pc = "loop"
    /\ event_count < MaxEvents
    /\ event_count' = event_count + 1
    /\ LET step == run_step(sea_cucumbers)
       IN  /\ sea_cucumbers' = step[1]
           /\ IF step[2] = 0
              THEN pc' = "done" /\ result' = Returned(event_count')
              ELSE UNCHANGED <<pc, result>>
    /\ UNCHANGED <<cucumber_file, amphipod_vars, reactor_vars, build_vars, snailfish_vars>>

NextCucumber == RunLoop

SpecCucumber == InitCucumber /\ [][NextCucumber]_vars


(* The step as the puzzle states it, cell by cell, rows and columns        *)
(* counted from 1: all east-facing cucumbers whose east neighbour is       *)
(* vacant move at once, then all south-facing ones whose south neighbour   *)
(* is vacant after that.                                                   *)
EastOf(grid, c) == (c % Len(grid[1])) + 1

WestOf(grid, c) == ((c + Len(grid[1]) - 2) % Len(grid[1])) + 1

SouthOf(grid, r) == (r % Len(grid)) + 1

NorthOf(grid, r) == ((r + Len(grid) - 2) % Len(grid)) + 1

Places(grid) == (1..Len(grid)) \X (1..Len(grid[1]))

EastMovers(grid) ==
    { p \in Places(grid) :
        grid[p[1]][p[2]] = Right /\ grid[p[1]][EastOf(grid, p[2])] = Vacant }

SouthMovers(grid) ==
    { p \in Places(grid) :
        grid[p[1]][p[2]] = Down /\ grid[SouthOf(grid, p[1])][p[2]] = Vacant }

AfterEast(grid) ==
    [r \in 1..Len(grid) |-> [c \in 1..Len(grid[1]) |->
        IF <<r, c>> \in EastMovers(grid) THEN Vacant
        ELSE IF <<r, WestOf(grid, c)>> \in EastMovers(grid) THEN Right
        ELSE grid[r][c]]]

AfterSouth(grid) ==
    [r \in 1..Len(grid) |-> [c \in 1..Len(grid[1]) |->
        IF <<r, c>> \in SouthMovers(grid) THEN Vacant
        ELSE IF <<NorthOf(grid, r), c>> \in SouthMovers(grid) THEN Down
        ELSE grid[r][c]]]

AfterStep(grid) == AfterSouth(AfterEast(grid))

Quiet(grid) == EastMovers(grid) = {} /\ SouthMovers(AfterEast(grid)) = {}

RECURSIVE AfterSteps(_, _)
AfterSteps(grid, n) == IF n = 0 THEN grid ELSE AfterSteps(AfterStep(grid), n - 1)

(* the number of the first step in which nothing moves, 0 if there is none *)
(* among the steps n..MaxEvents, grid being the grid before step n         *)
RECURSIVE FirstQuietStep(_, _)
FirstQuietStep(grid, n) ==
    IF n > MaxEvents THEN 0
    ELSE IF Quiet(grid) THEN n
    ELSE FirstQuietStep(AfterStep(grid), n + 1)

(* C22: for a grid that comes to rest, run returns the 1-based number of   *)
(* the first step in which no cucumber moves, a step moving at once every  *)
(* east-facing cucumber whose east neighbour (around the row) was vacant   *)
(* and then at once every south-facing cucumber whose south neighbour      *)
(* (around the column) is vacant after the east moves; until then run is   *)
(* in its loop and the grid is the one the steps made so far lead to.      *)
C22_RunReturnsFirstQuietStep ==
    LET quiet == FirstQuietStep(cucumber_file, 1)
    IN  /\ pc = "done" => (quiet > 0 /\ result = Returned(quiet))
        /\ pc = "loop" =>
              /\ sea_cucumbers = AfterSteps(cucumber_file, event_count)
              /\ quiet > 0 => event_count < quiet

(* a grid in which an east move frees the way of a south-facing cucumber  *)
(* in the first step and that comes to rest in a later step               *)
C22_Witness ==
    /\ pc = "done"
    /\ result.value >= 4
    /\ EastMovers(cucumber_file) # {}
    /\ SouthMovers(AfterEast(cucumber_file)) \ SouthMovers(cucumber_file) # {}


---------------------------------------------------------------------------
(* The driver with a best-known-cost map (spec 4.3), over the legal moves  *)
(* stated above.  best holds one game per arrangement recorded, its energy *)
(* being the best known cost; lowest is the lowest cost of a goal board    *)
(* seen, Nothing while there is none.                                      *)

NoSolution == [kind |-> "no solution", value |-> 0]

Lower(lowest, costs) ==
    IF costs = {} THEN lowest
    ELSE IF lowest = Nothing THEN Some(Least(costs))
    ELSE Some(Least(costs \cup {lowest[1]}))

RECURSIVE BestCostDriver(_, _, _)
BestCostDriver(frontier, best, lowest) ==
    IF frontier = {} THEN lowest
    ELSE LET successors == LegalSuccessors(frontier)
             goals == { g \in successors : Goal(g) }
             better == { g \in successors \ goals :
                           ~\E b \in best : /\ arrangement(b) = arrangement(g)
                                            /\ b.energy <= g.energy }
             kept == { g \in better :
                         \A h \in better :
                             arrangement(h) = arrangement(g) => g.energy <= h.energy }
             recorded == { b \in best :
                             ~\E g \in kept : arrangement(g) = arrangement(b) } \cup kept
         IN  BestCostDriver(kept, recorded, Lower(lowest, { g.energy : g \in goals }))

Reported(initial) ==
    LET lowest == BestCostDriver({initial}, {initial}, Nothing)
    IN  IF lowest = Nothing THEN NoSolution ELSE Returned(lowest[1])

(* C23: for every well-formed initial board the level-by-level search of   *)
(* run, which keeps every (arrangement, energy) pair, reports the same     *)
(* minimum goal cost as the driver that keeps only the minimal cost per    *)
(* arrangement in a best-known-cost map.                                   *)
C23_RunReportsWhatBestCostDriverReports ==
    pc = "done" => result = Reported(game)


---------------------------------------------------------------------------
(* Specification of the head of the amphipod run: from the arguments and   *)
(* the parsed rows to the initial game and the first frontier.             *)

WellFormedInputs == { in \in Rows \X Rows : WellFormedRows(in[1], in[2]) }

InitBuild ==
    /\ pc = "build"
    /\ amphipod_arguments \in [additional_rows : BOOLEAN]
    /\ amphipods \in WellFormedInputs
    /\ game = EmptyBoard(2)
    /\ moves = <<>>
    /\ winner = FALSE
    /\ games = {}
    /\ winning_games = {}
    /\ iteration = 0
    /\ dead_ends = {}
    /\ result = Running
    /\ OthersIdle

Build ==
    /\ pc = "build"
    /\ game' = InitialGame(amphipod_arguments.additional_rows, amphipods[1], amphipods[2])
    /\ games' = {game'}
    /\ pc' = "loop"
    /\ UNCHANGED <<moves, winner, winning_games, iteration, dead_ends, result,
                 build_vars, reactor_vars, snailfish_vars, cucumber_vars>>

NextBuild == Build

SpecBuild == InitBuild /\ [][NextBuild]_vars

(* occurrences of kind k in the two parsed rows *)
CountInRows(rows, k) ==
    Cardinality({ i \in 1..4 : rows[1][i] = k }) + Cardinality({ i \in 1..4 : rows[2][i] = k })

(* C24: run builds the initial game with energy 0 and the seven hallway    *)
(* slots empty; without additional rows block_depth is 2 and room i is     *)
(* [bottom[i], top[i]]; with additional rows block_depth is 4 and the      *)
(* rooms are [bottom, Desert, Desert, top], [bottom, Bronze, Copper, top], *)
(* [bottom, Amber, Bronze, top], [bottom, Copper, Amber, top], so that the *)
(* inserted rows add exactly two amphipods of each kind.                   *)
C24_InitialGameAsBuilt ==
    pc = "loop" =>
        LET top == amphipods[1]
            bottom == amphipods[2]
        IN  /\ game.energy = 0
            /\ \A b \in Buffers : game[b] = None
            /\ games = {game}
            /\ ~amphipod_arguments.additional_rows =>
                 /\ game.block_depth = 2
                 /\ game.a_block = <<bottom[1], top[1]>>
                 /\ game.b_block = <<bottom[2], top[2]>>
                 /\ game.c_block = <<bottom[3], top[3]>>
                 /\ game.d_block = <<bottom[4], top[4]>>
            /\ amphipod_arguments.additional_rows =>
                 /\ game.block_depth = 4
                 /\ game.a_block = <<bottom[1], "Desert", "Desert", top[1]>>
                 /\ game.b_block = <<bottom[2], "Bronze", "Copper", top[2]>>
                 /\ game.c_block = <<bottom[3], "Amber", "Bronze", top[3]>>
                 /\ game.d_block = <<bottom[4], "Copper", "Amber", top[4]>>
                 /\ \A k \in Amphipod : CountOf(game, k) = CountInRows(amphipods, k) + 2

(* a game built with the additional rows *)
C24_Witness ==
    /\ pc = "loop"
    /\ amphipod_arguments.additional_rows
    /\ game.block_depth = 4
    /\ Len(game.c_block) = 4
    /\ \A k \in Amphipod : CountOf(game, k) = 4


---------------------------------------------------------------------------
(* Further properties of the loop of run (specification Spec) *)

(* C25: in every board reachable from a well-formed initial board no room  *)
(* holds more than block_depth amphipods, so block_depth - len(room) never *)
(* goes below zero.                                                        *)
C25_RoomsNeverOverfull ==
    \A g \in games \cup winning_games :
        \A r \in Blocks : g.block_depth - Len(g[r]) >= 0

(* a board of the frontier in which a room that was not ready at the start *)
(* has been filled to block_depth by entries                               *)
C25_Witness ==
    \E g \in games :
        \E r \in Blocks :
            /\ ~Ready(game, r)
            /\ Ready(g, r)
            /\ Len(g[r]) = g.block_depth


---------------------------------------------------------------------------
(* Further properties of the move generator (specification SpecMoves) *)

(* stack is lower with zero or more amphipods put on top *)
BuiltOn(stack, lower) ==
    /\ Len(stack) >= Len(lower)
    /\ \A i \in 1..Len(lower) : stack[i] = lower[i]

(* C26: readiness is monotone: a room that holds only amphipods of its own *)
(* kind does so after every legal move, and no amphipod is moved out of it *)
(* again.                                                                  *)
C26_ReadyRoomsStayReady ==
    pc = "return" =>
        \A r \in Blocks :
            Ready(game, r) =>
                \A i \in 1..Len(moves) :
                    /\ Ready(moves[i], r)
                    /\ BuiltOn(moves[i][r], game[r])

(* a board with a ready room that is not empty, a move into that room and *)
(* a move out of another room                                             *)
C26_Witness ==
    /\ pc = "return"
    /\ \E r \in Blocks :
          /\ Ready(game, r)
          /\ Len(game[r]) > 0
          /\ \E i \in 1..Len(moves) : Len(moves[i][r]) = Len(game[r]) + 1
    /\ \E r \in Blocks, i \in 1..Len(moves) : Len(moves[i][r]) = Len(game[r]) - 1


---------------------------------------------------------------------------
(* Passes and arrangements (specification Spec) *)

(* the number of amphipods at the bottom of stack that are of kind k with  *)
(* none of another kind below them                                         *)
RECURSIVE OwnAtBottom(_, _)
OwnAtBottom(stack, k) ==
    IF stack = <<>> \/ Head(stack) # k THEN 0
    ELSE 1 + OwnAtBottom(Tail(stack), k)

(* The moves that separate board g from the initial board, read off g's    *)
(* rooms alone: a room that still holds a foreign amphipod has only been   *)
(* left, a room that holds none has been left down to the own-kind bottom  *)
(* of its initial stack and entered from there.                            *)
MovesOfRoom(initial, g, r) ==
    IF Ready(g, r)
    THEN LET kept == OwnAtBottom(initial[r], KindOf(r))
         IN  (Len(initial[r]) - kept) + (Len(g[r]) - kept)
    ELSE Len(initial[r]) - Len(g[r])

MovesMade(initial, g) ==
    MovesOfRoom(initial, g, "a_block") + MovesOfRoom(initial, g, "b_block")
        + MovesOfRoom(initial, g, "c_block") + MovesOfRoom(initial, g, "d_block")

(* C27: the number of moves that lead to an arrangement is determined by   *)
(* the arrangement: the frontier of pass n holds exactly the games whose   *)
(* arrangement is n moves from the initial board, so no arrangement is in  *)
(* the frontiers of two different passes.                                  *)
C27_ArrangementFixesThePass ==
    \A g \in games : MovesMade(game, arrangement(g)) = iteration

(* a frontier that holds one arrangement at two different costs *)
C27_Witness ==
    /\ pc = "loop"
    /\ iteration >= 2
    /\ \E g \in games, h \in games : g # h /\ arrangement(g) = arrangement(h)


(* C28: every game that run records in winning_games, starting from a      *)
(* well-formed initial board, has each room holding exactly block_depth    *)
(* amphipods, all of the room's own kind.                                  *)
C28_WinnersHaveFullRooms ==
    \A w \in winning_games :
        \A r \in Blocks :
            /\ Len(w[r]) = w.block_depth
            /\ \A i \in 1..Len(w[r]) : w[r][i] = KindOf(r)

(* winners of different cost recorded for an input that is not sorted yet *)
C28_Witness ==
    /\ Cardinality(winning_games) > 1
    /\ \E r \in Blocks : ~Ready(game, r)
    /\ \A w \in winning_games : w.energy > 0


---------------------------------------------------------------------------
(* A room-to-room transfer as two moves of the generator (SpecMoves) *)

(* the hallway slots strictly between the mouths of rooms r and q *)
Between(r, q) ==
    { s \in Buffers :
        \/ MouthPos(r) < SlotPos(s) /\ SlotPos(s) < MouthPos(q)
        \/ MouthPos(q) < SlotPos(s) /\ SlotPos(s) < MouthPos(r) }

(* the top amphipod of room r belongs to the other, ready room q and the   *)
(* slots between the two mouths are empty                                  *)
MayTransfer(g, r, q) ==
    /\ r # q
    /\ Len(g[r]) > 0
    /\ KindOf(q) = g[r][Len(g[r])]
    /\ Ready(g, q)
    /\ \A s \in Between(r, q) : g[s] = None

(* g after the top amphipod of room r has gone to slot s, and after it has *)
(* gone on into room q, the energy aside                                   *)
Stopped(g, r, s) ==
    [g EXCEPT ![s] = g[r][Len(g[r])], ![r] = SubSeq(g[r], 1, Len(g[r]) - 1), !.energy = 0]

Transferred(g, r, q) ==
    [g EXCEPT ![q] = Append(g[q], g[r][Len(g[r])]),
              ![r] = SubSeq(g[r], 1, Len(g[r]) - 1), !.energy = 0]

(* C29: where the top amphipod t of room R belongs to a different, ready   *)
(* room R' and every slot between the two mouths is empty, moving t from R *)
(* to any slot s between the mouths and then into R' adds exactly          *)
(* multiplier(t) * (distance between the mouths + steps to climb out of R  *)
(* + steps down to the landing depth in R').                               *)
C29_TransferCostIsSlotIndependent ==
    pc = "return" =>
        \A r \in Blocks, q \in Blocks :
            MayTransfer(game, r, q) =>
                \A s \in Between(r, q) :
                    LET t == game[r][Len(game[r])]
                        climb == game.block_depth - Len(game[r]) + 1
                        descent == game.block_depth - Len(game[q])
                        total == multiplier(t)
                                   * (Dist(MouthPos(r), MouthPos(q)) + climb + descent)
                        out == { i \in 1..Len(moves) :
                                    arrangement(moves[i]) = Stopped(game, r, s) }
                    IN  /\ out # {}
                        /\ \A i \in out :
                              LET onward == get_all_valid_moves(moves[i])
                                  in == { j \in 1..Len(onward) :
                                            arrangement(onward[j]) = Transferred(game, r, q) }
                              IN  /\ in # {}
                                  /\ \A j \in in : onward[j].energy = game.energy + total

(* a transfer past another room's mouth into a room that is not empty *)
C29_Witness ==
    /\ pc = "return"
    /\ \E r \in Blocks, q \in Blocks :
          /\ MayTransfer(game, r, q)
          /\ Cardinality(Between(r, q)) >= 2
          /\ Len(game[q]) > 0
          /\ Len(game[r]) > 1
          /\ game.energy > 0
          /\ \E i \in 1..Len(moves), s \in Between(r, q) :
                arrangement(moves[i]) = Stopped(game, r, s)


---------------------------------------------------------------------------
(* Specification of the cuboid arithmetic of the reactor reboot: either    *)
(* run is followed as in SpecReactor, or fracture_cuboid is called with a  *)
(* base and a sub cube inside it, which is what run_steps passes (a cube   *)
(* of on_cubes and its intersection with the step's cuboid).  The bases    *)
(* span up to three coordinates an axis, so that a sub cube can leave a    *)
(* piece on either side.                                                   *)

MaxCoord == 2

FractureCoords == 0..MaxCoord

FractureCuboids ==
    { Cuboid(x, y, z) : x \in Ranges(FractureCoords), y \in Ranges(FractureCoords),
                        z \in Ranges(FractureCoords) }

(* the cuboids inside base: the intersections base can have *)
SubCuboids(base) ==
    { Cuboid(x, y, z) : x \in Ranges(base.x_range.low..base.x_range.high),
                        y \in Ranges(base.y_range.low..base.y_range.high),
                        z \in Ranges(base.z_range.low..base.z_range.high) }

InitFracture ==
    /\ pc = "fracture"
    /\ fracture_base \in FractureCuboids
    /\ fracture_sub_cube \in SubCuboids(fracture_base)
    /\ fracture_pieces = <<>>
    /\ arguments = [limit_cubes |-> FALSE]
    /\ reboot_steps = <<>>
    /\ filtered_steps = <<>>
    /\ on_cubes = {}
    /\ result = Running
    /\ AmphipodIdle
    /\ SnailfishIdle
    /\ CucumberIdle

Fracture ==
    /\ pc = "fracture"
    /\ fracture_pieces' = fracture_cuboid(fracture_base, fracture_sub_cube)
    /\ pc' = "fractured"
    /\ UNCHANGED <<result, arguments, reboot_steps, filtered_steps, on_cubes,
                 fracture_base, fracture_sub_cube, amphipod_vars, build_vars,
                 snailfish_vars, cucumber_vars>>

InitCuboids == InitReactor \/ InitFracture

NextCuboids == FilterSteps \/ RunStep \/ SumSizes \/ Fracture

SpecCuboids == InitCuboids /\ [][NextCuboids]_vars

(* the unit cubes of a cuboid *)
Points(cuboid) ==
    (cuboid.x_range.low..cuboid.x_range.high)
        \X (cuboid.y_range.low..cuboid.y_range.high)
        \X (cuboid.z_range.low..cuboid.z_range.high)

Disjoint(c, d) == Points(c) \cap Points(d) = {}

(* C30: after every step processed by run_steps the cuboids of on_cubes    *)
(* are pairwise disjoint; fracture_cuboid(base, intersection) returns at   *)
(* most 26 cuboids that are pairwise disjoint, lie inside base, do not     *)
(* meet the intersection and together with it cover base exactly.          *)
C30_CuboidsStayDisjoint ==
    /\ \A c \in on_cubes, d \in on_cubes : c # d => Disjoint(c, d)
    /\ pc = "fractured" =>
          LET n == Len(fracture_pieces)
          IN  /\ n <= 26
              /\ \A i \in 1..n :
                    /\ Points(fracture_pieces[i]) # {}
                    /\ Points(fracture_pieces[i]) \subseteq Points(fracture_base)
                    /\ Disjoint(fracture_pieces[i], fracture_sub_cube)
                    /\ \A j \in (i + 1)..n : Disjoint(fracture_pieces[i], fracture_pieces[j])
              /\ UNION { Points(fracture_pieces[i]) : i \in 1..n }
                    \cup Points(fracture_sub_cube) = Points(fracture_base)

(* the sub cube in the middle of the base: 26 pieces around it *)
C30_Witness ==
    /\ pc = "fractured"
    /\ Len(fracture_pieces) = 26
    /\ Cardinality(Points(fracture_sub_cube)) = 1

=============================================================================
